---- MODULE Spec2Model ----
(***************************************************************************)
(* Matchmaking core of fermah-xyz/seek: the proof-request store, the       *)
(* operator registry and the payment columns, as kept by                   *)
(* fermah-database (Postgres, `Database`) and fermah-db (sled,             *)
(* `InMemoryDB`).  Every SQL statement is one atomic step.                 *)
(***************************************************************************)
EXTENDS Integers, Sequences, FiniteSets, TLC

\* ---------------------------------------------------------------- bounds
MaxRows == 1
MaxTicks == 2
MaxSleeps == 1

\* ------------------------------------------------------ program constants
REASSIGNMENT_SECONDS == 10
TicksPerSecond == 2

ReqIds == {1, 2}
OperatorIds == {1, 2}
Handlers == {1, 2}
Reasons == {"sorry", "late"}
Amounts == {7, 9}

\* SQL NULL of each nullable column type
NullText == "NULL"
NullAddr == 0
NullBytes == <<>>
NullNumeric == -1

\* fermah_common::proof::Proof
Proofs == {[proof |-> <<0>>, prover |-> 1], [proof |-> <<9, 6>>, prover |-> 2]}
NoProof == [proof |-> <<>>, prover |-> NullAddr]

\* bincode: a Vec<u8> is its length followed by its bytes; the prover follows
bincode_serialize(p) == <<Len(p.proof)>> \o p.proof \o <<p.prover>>

bincode_deserialize(b) == [proof |-> SubSeq(b, 2, 1 + b[1]), prover |-> b[Len(b)]]

\* ProofStatus: the variant tag and the payload the variant carries
ProofStatus(tag, reason, oid, proof) ==
    [tag |-> tag, reason |-> reason, oid |-> oid, proof |-> proof]

Created == ProofStatus("Created", NullText, NullAddr, NoProof)
Accepted == ProofStatus("Accepted", NullText, NullAddr, NoProof)
Cancelled == ProofStatus("Cancelled", NullText, NullAddr, NoProof)
Rejected(r) == ProofStatus("Rejected", r, NullAddr, NoProof)
Assigned(o) == ProofStatus("Assigned", NullText, o, NoProof)
AcknowledgedAssignment(o) == ProofStatus("AcknowledgedAssignment", NullText, o, NoProof)
ProofBeingTested(p) == ProofStatus("ProofBeingTested", NullText, NullAddr, p)
Proven(p) == ProofStatus("Proven", NullText, NullAddr, p)

Targets ==
    {Created, Accepted, Cancelled}
        \cup {Rejected(r) : r \in Reasons}
        \cup {Assigned(o) : o \in OperatorIds}
        \cup {AcknowledgedAssignment(o) : o \in OperatorIds}
        \cup {ProofBeingTested(p) : p \in Proofs}
        \cup {Proven(p) : p \in Proofs}

\* Payment: the variant and the amount it carries (Nothing carries none)
Payment(tag, amount) == [tag |-> tag, amount |-> amount]

Nothing == Payment("Nothing", 0)

Payments ==
    {Nothing} \cup
    {Payment(t, a) : t \in {"ToReserve", "Reserved", "ReadyToPay", "Paid", "Refund"},
                     a \in Amounts}

\* the payments a request goes through before it is ready to pay
ReadyPayments == {Payment("ToReserve", 7), Payment("Reserved", 7)}

is_final(s) == s.tag \in {"Cancelled", "Proven", "Rejected"}

\* an Option of a number
None == [some |-> FALSE, value |-> 0]

Some(value) == [some |-> TRUE, value |-> value]

\* ------------------------------------------------------------- resources
\* sizes and core counts, in units
Units == {1, 2}

\* Memory: a size and a type, the type by its position in its enum
Memory(size, type) == [size |-> size, type |-> type]

\* the GPU models of the model, of the enum GPUModel
GPUModels == {"GeForceRtx3060_8GB", "GeForceRtx3060_12GB", "H100"}

\* the position of a model in the enum GPUModel, which derive(Ord) compares
GPUModel_rank(model) ==
    CASE model = "GeForceRtx3060_8GB" -> 42
      [] model = "GeForceRtx3060_12GB" -> 77
      [] model = "H100" -> 166

\* GPUSpecs
GPUSpecs(cores, memory, clock_rate) ==
    [cores |-> cores, memory |-> memory, clock_rate |-> clock_rate]

\* GPUModel::specs, sizes in units of 4 GiB, cores and clock rates by rank;
\* every model without an arm of its own has the specs of the last arm
GPUModel_specs(model) ==
    CASE model = "GeForceRtx3060_12GB" -> GPUSpecs(1, Memory(3, 0), 1)
      [] model = "GeForceRtx3060_8GB" -> GPUSpecs(1, Memory(2, 0), 1)
      [] OTHER -> GPUSpecs(2, Memory(2, 1), 2)

\* GPU::Model and GPU::Specs
GPU_Model(model) == [kind |-> "Model", model |-> model, specs |-> GPUSpecs(0, Memory(0, 0), 0)]

GPU_Specs(specs) == [kind |-> "Specs", model |-> "", specs |-> specs]

\* GPU::specs
GPU_specs(gpu) == IF gpu.kind = "Model" THEN GPUModel_specs(gpu.model) ELSE gpu.specs

\* a GPU given by specs with a memory of the size
PlainGpu(size) == GPU_Specs(GPUSpecs(1, Memory(size, 0), 1))

\* CPU::Model and CPU::Specs; CPUModel by its position in its enum
CPU_Model(rank) == [kind |-> "Model", model |-> rank, cores |-> 0, clock_rate |-> 0]

CPU_Specs(cores, clock_rate) ==
    [kind |-> "Specs", model |-> 0, cores |-> cores, clock_rate |-> clock_rate]

\* CPU::specs; CPUModel::specs has 8 cores (2 units) for every model
CPU_specs(cpu) ==
    IF cpu.kind = "Model" THEN [cores |-> 2, clock_rate |-> 2]
    ELSE [cores |-> cpu.cores, clock_rate |-> cpu.clock_rate]

\* the GPU lists an operator advertises
GpuSets == {<<>>, <<PlainGpu(1)>>, <<PlainGpu(2)>>, <<PlainGpu(2), PlainGpu(1)>>}

\* Resource
Resources ==
    [ram : {Memory(u, 0) : u \in Units}, ssd : {Memory(u, 0) : u \in Units},
     gpus : GpuSets, cpu : {CPU_Specs(u, 1) : u \in Units}]

\* the minimums a request may set
Minimums == {None} \cup {Some(u) : u \in Units}

\* ResourceRequirement
Requirements ==
    [min_vram : Minimums, min_ram : Minimums, min_ssd : Minimums,
     min_gpu : {<<>>, <<"H100">>}, min_cpu_cores : Minimums]

\* ResourceRequirement::default()
NoRequirement ==
    [min_vram |-> None, min_ram |-> None, min_ssd |-> None,
     min_gpu |-> <<>>, min_cpu_cores |-> None]

\* the resource of an operator that advertises the least
SmallResource ==
    [ram |-> Memory(1, 0), ssd |-> Memory(1, 0), gpus |-> <<>>, cpu |-> CPU_Specs(1, 1)]

\* the GPUs of the matching: every named model, a GPU given by specs below
\* all of them and one given by the specs of the last arm of GPUModel::specs
MatchGpus ==
    {GPU_Model(model) : model \in GPUModels}
        \cup {PlainGpu(1), GPU_Specs(GPUModel_specs("H100"))}

\* the lists of at most two elements of a set
UpToTwo(S) == {<<>>} \cup {<<x>> : x \in S} \cup {<<x, y>> : x \in S, y \in S}

\* the resources and requirements of the matching
MatchResources ==
    [ram : {Memory(1, 0)}, ssd : {Memory(1, 0)}, gpus : UpToTwo(MatchGpus),
     cpu : {CPU_Specs(1, 1)}]

MatchRequirements ==
    [min_vram : {None, Some(2)}, min_ram : {None}, min_ssd : {None},
     min_gpu : UpToTwo(GPUModels), min_cpu_cores : {None}]

\* impl Fulfillable<GPUModel> for GPU
GPU_fulfills(gpu, model) ==
    GPU_specs(gpu).memory.size >= GPUModel_specs(model).memory.size

\* a loop in which a tier takes the first GPU that fulfills it, taken or not
RECURSIVE fulfilled_gpu_is_Shared(_, _, _)
fulfilled_gpu_is_Shared(tiers, gpus, taken) ==
    IF tiers = <<>> THEN taken
    ELSE LET fit == {i \in DOMAIN gpus : GPU_fulfills(gpus[i], Head(tiers))}
             first == CHOOSE i \in fit : \A j \in fit : i <= j
         IN  fulfilled_gpu_is_Shared(Tail(tiers), gpus,
                                     IF fit = {} THEN taken ELSE Append(taken, first))

\* the loop over req.min_gpu: each tier takes the first GPU that is not
\* taken yet and fulfills it; the indices taken, in the order they are pushed
RECURSIVE fulfilled_gpu_is(_, _, _)
fulfilled_gpu_is(tiers, gpus, taken) ==
    IF tiers = <<>> THEN taken
    ELSE LET fit == {i \in DOMAIN gpus :
                        /\ \A k \in DOMAIN taken : taken[k] # i
                        /\ GPU_fulfills(gpus[i], Head(tiers))}
             first == CHOOSE i \in fit : \A j \in fit : i <= j
         IN  fulfilled_gpu_is(Tail(tiers), gpus,
                              IF fit = {} THEN taken ELSE Append(taken, first))

\* a check of the GPUs' memory that one large GPU satisfies
fulfills_SomeGpu(self, req) ==
    IF req.min_ram.some /\ self.ram.size < req.min_ram.value THEN FALSE
    ELSE IF req.min_ssd.some /\ self.ssd.size < req.min_ssd.value THEN FALSE
    ELSE IF req.min_cpu_cores.some /\ CPU_specs(self.cpu).cores < req.min_cpu_cores.value
    THEN FALSE
    ELSE IF /\ req.min_vram.some
            /\ self.gpus # <<>>
            /\ \A i \in DOMAIN self.gpus :
                  GPU_specs(self.gpus[i]).memory.size < req.min_vram.value
    THEN FALSE
    ELSE Len(fulfilled_gpu_is(req.min_gpu, self.gpus, <<>>)) = Len(req.min_gpu)

\* impl Fulfillable<ResourceRequirement> for Resource
fulfills(self, req) ==
    IF req.min_ram.some /\ self.ram.size < req.min_ram.value THEN FALSE
    ELSE IF req.min_ssd.some /\ self.ssd.size < req.min_ssd.value THEN FALSE
    ELSE IF req.min_cpu_cores.some /\ CPU_specs(self.cpu).cores < req.min_cpu_cores.value
    THEN FALSE
    ELSE IF /\ req.min_vram.some
            /\ \E i \in DOMAIN self.gpus :
                  GPU_specs(self.gpus[i]).memory.size < req.min_vram.value
    THEN FALSE
    ELSE Len(fulfilled_gpu_is(req.min_gpu, self.gpus, <<>>)) = Len(req.min_gpu)

\* Ordering, and Ordering::then
Orderings == {"Less", "Equal", "Greater"}

Ordering_then(first, second) == IF first # "Equal" THEN first ELSE second

\* u64::cmp, and the derived cmp of an enum by the positions of its variants
cmp(a, b) == IF a < b THEN "Less" ELSE IF a = b THEN "Equal" ELSE "Greater"

\* impl Ord for Memory<T>
Memory_cmp(self, other) ==
    Ordering_then(cmp(self.size, other.size), cmp(self.type, other.type))

\* impl Ord for GPU
GPU_cmp(self, other) ==
    IF self.kind = "Model" /\ other.kind = "Model"
    THEN cmp(GPUModel_rank(self.model), GPUModel_rank(other.model))
    ELSE LET self_specs == GPU_specs(self)
             other_specs == GPU_specs(other)
         IN  Ordering_then(Memory_cmp(self_specs.memory, other_specs.memory),
                 Ordering_then(cmp(self_specs.cores, other_specs.cores),
                               cmp(self_specs.clock_rate, other_specs.clock_rate)))

\* impl Ord for CPU
CPU_cmp(self, other) ==
    IF self.kind = "Model" /\ other.kind = "Model"
    THEN cmp(self.model, other.model)
    ELSE LET self_specs == CPU_specs(self)
             other_specs == CPU_specs(other)
         IN  Ordering_then(cmp(self_specs.cores, other_specs.cores),
                           cmp(self_specs.clock_rate, other_specs.clock_rate))

\* gpus.iter().max() of a list that is not empty: the fold keeps the GPU it
\* holds only when it compares Greater than the next one
RECURSIVE best_gpu(_, _)
best_gpu(held, gpus) ==
    IF gpus = <<>> THEN held
    ELSE best_gpu(IF GPU_cmp(held, Head(gpus)) = "Greater" THEN held ELSE Head(gpus),
                  Tail(gpus))

\* impl Ord for Resource
Resource_cmp(self, other) ==
    LET gpu_ordering ==
            IF self.gpus # <<>>
            THEN IF other.gpus # <<>>
                 THEN GPU_cmp(best_gpu(Head(self.gpus), Tail(self.gpus)),
                              best_gpu(Head(other.gpus), Tail(other.gpus)))
                 ELSE "Greater"
            ELSE IF other.gpus # <<>> THEN "Less" ELSE "Equal"
    IN  Ordering_then(gpu_ordering,
            Ordering_then(Memory_cmp(self.ram, other.ram), CPU_cmp(self.cpu, other.cpu)))

\* the resources that are ranked against each other: GPUs and CPUs by name
\* and by specs, CPUModel IntelI3 at position 0 and EPYC at position 9
OrderGpuSets ==
    {<<>>, <<GPU_Model("GeForceRtx3060_12GB")>>, <<GPU_Model("H100")>>,
     <<GPU_Specs(GPUModel_specs("H100"))>>,
     <<PlainGpu(1), GPU_Model("GeForceRtx3060_8GB")>>}

OrderResources ==
    [ram : {Memory(1, 0)}, ssd : {Memory(1, 0)}, gpus : OrderGpuSets,
     cpu : {CPU_Model(0)}]
        \cup [ram : {Memory(u, 0) : u \in Units}, ssd : {Memory(1, 0)}, gpus : {<<>>},
              cpu : {CPU_Model(0), CPU_Model(9), CPU_Specs(2, 2)}]

\* the resource of an operator that advertises the most
LargeResource ==
    [ram |-> Memory(2, 0), ssd |-> Memory(2, 0), gpus |-> <<PlainGpu(2)>>,
     cpu |-> CPU_Specs(2, 1)]

\* the resources an operator registers with
AdvertisedResources == {SmallResource, LargeResource}

\* bincode::serialize of a Resource: the bytes of the column, as a number
\* that is different for different resources
serialize_resource(resource) == IF resource = SmallResource THEN 1 ELSE 2

\* bincode::deserialize of the column
deserialize_resource(bytes) == IF bytes = 1 THEN SmallResource ELSE LargeResource

\* ------------------------------------------------------------------ state
VARIABLES
    mm_proof_requests,   \* Postgres table mm_proof_requests, by id
    mm_operators,        \* Postgres table mm_operators, by id
    sled_proof_requests, \* sled tree proof_requests of InMemoryDB, by id
    clock,               \* wall clock, in ticks of 1/TicksPerSecond s
    hs,                  \* the concurrent handlers' calls in flight
    last,                \* the last completed call, its arguments and result
    mm_deadlines         \* Postgres table mm_deadlines, a set of rows

vars ==
    <<mm_proof_requests, mm_operators, sled_proof_requests, clock, hs, last, mm_deadlines>>

\* a row of mm_proof_requests; present = FALSE stands for "no such row"
NoRow ==
    [present |-> FALSE, status |-> "Created", rejection_message |-> NullText,
     operator_id |-> NullAddr, proof |-> NullBytes, assigned |-> NullAddr,
     last_status_update |-> 0, payment |-> "Nothing", amount |-> NullNumeric,
     public_key |-> NullAddr, requester |-> NullAddr]

\* a row of mm_operators
NoOperator ==
    [present |-> FALSE, last_interaction |-> 0, online |-> FALSE, last_assignment |-> 0,
     resource |-> 0, reputation |-> 0]

\* a value of the sled tree: ProofRequestParams
NoParams ==
    [present |-> FALSE, assigned |-> NullAddr, status |-> Created,
     last_status_update |-> 0, payment |-> [tag |-> "Nothing", amount |-> 0],
     requester |-> NullAddr]

\* Database::now(): the application clock with the sub-second part cut off
Database_now == clock - (clock % TicksPerSecond)

\* impl From<MmProofRequest> for ProofRequestParams: the status read back
StatusOfRow(row) ==
    CASE row.status = "Rejected" ->
            Rejected(IF row.rejection_message = NullText THEN "" ELSE row.rejection_message)
      [] row.status = "Assigned" -> Assigned(row.operator_id)
      [] row.status = "AcknowledgedAssignment" -> AcknowledgedAssignment(row.operator_id)
      [] row.status = "ProofBeingTested" -> ProofBeingTested(bincode_deserialize(row.proof))
      [] row.status = "Proven" -> Proven(bincode_deserialize(row.proof))
      [] OTHER -> ProofStatus(row.status, NullText, NullAddr, NoProof)

\* the Payment read back: the payment column with the amount column
PaymentOfRow(row) ==
    [tag |-> row.payment,
     amount |-> IF row.payment = "Nothing" \/ row.amount = NullNumeric THEN 0 ELSE row.amount]

\* Database::get_proof_request: None, or the ProofRequestParams of the row
get_proof_request(id) ==
    LET row == mm_proof_requests[id] IN
    [found |-> row.present,
     status |-> StatusOfRow(row),
     assigned |-> row.assigned,
     last_status_update |-> row.last_status_update,
     payment |-> PaymentOfRow(row)]

\* a function that also withholds what is paid already
not_elighable_for_returns_PaidToo(params) ==
    IF params.payment.tag \in {"ReadyToPay", "Reserved", "Paid"}
    THEN Some(params.payment.amount) ELSE None

\* ProofRequestParams::not_elighable_for_returns
not_elighable_for_returns(params) ==
    CASE params.payment.tag = "Refund" -> None
      [] params.payment.tag = "ReadyToPay" -> Some(params.payment.amount)
      [] params.payment.tag = "Reserved" -> Some(params.payment.amount)
      [] params.payment.tag = "Paid" -> None
      [] params.payment.tag = "ToReserve" -> None
      [] params.payment.tag = "Nothing" -> None

\* ------------------------------------------- Database: proof-request status
\* a WHERE clause that also lets Rejected replace Accepted and Assigned
SourceFilter_RejectAnyOpen(target) ==
    CASE target.tag = "Created" -> {}
      [] target.tag \in {"Accepted", "Cancelled"} -> {"Created"}
      [] target.tag = "Rejected" ->
            {"Created", "Accepted", "Assigned", "AcknowledgedAssignment", "ProofBeingTested"}
      [] target.tag = "Assigned" -> {"Accepted"}
      [] target.tag = "AcknowledgedAssignment" -> {"Assigned"}
      [] target.tag = "ProofBeingTested" -> {"AcknowledgedAssignment"}
      [] target.tag = "Proven" -> {"ProofBeingTested"}

\* a WHERE clause that lets Rejected replace an earlier Rejected
SourceFilter_RejectAgain(target) ==
    CASE target.tag = "Created" -> {}
      [] target.tag \in {"Accepted", "Cancelled"} -> {"Created"}
      [] target.tag = "Rejected" ->
            {"Created", "AcknowledgedAssignment", "ProofBeingTested", "Rejected"}
      [] target.tag = "Assigned" -> {"Accepted"}
      [] target.tag = "AcknowledgedAssignment" -> {"Assigned"}
      [] target.tag = "ProofBeingTested" -> {"AcknowledgedAssignment"}
      [] target.tag = "Proven" -> {"ProofBeingTested"}

\* the WHERE clause of each UPDATE: the stored statuses the target may replace
SourceFilter(target) ==
    CASE target.tag = "Created" -> {}
      [] target.tag \in {"Accepted", "Cancelled"} -> {"Created"}
      [] target.tag = "Rejected" -> {"Created", "AcknowledgedAssignment", "ProofBeingTested"}
      [] target.tag = "Assigned" -> {"Accepted"}
      [] target.tag = "AcknowledgedAssignment" -> {"Assigned"}
      [] target.tag = "ProofBeingTested" -> {"AcknowledgedAssignment"}
      [] target.tag = "Proven" -> {"ProofBeingTested"}

\* a SET clause that stores the operator on Assigned only
SetColumns_AckKeepsOperator(row, target, now) ==
    LET stamped == [row EXCEPT !.last_status_update = now, !.status = target.tag] IN
    CASE target.tag = "Rejected" -> [stamped EXCEPT !.rejection_message = target.reason]
      [] target.tag = "Assigned" -> [stamped EXCEPT !.operator_id = target.oid]
      [] target.tag \in {"ProofBeingTested", "Proven"} ->
            [stamped EXCEPT !.proof = bincode_serialize(target.proof)]
      [] OTHER -> stamped

\* the SET clause of each UPDATE
SetColumns(row, target, now) ==
    LET stamped == [row EXCEPT !.last_status_update = now, !.status = target.tag] IN
    CASE target.tag = "Rejected" -> [stamped EXCEPT !.rejection_message = target.reason]
      [] target.tag \in {"Assigned", "AcknowledgedAssignment"} ->
            [stamped EXCEPT !.operator_id = target.oid]
      [] target.tag \in {"ProofBeingTested", "Proven"} ->
            [stamped EXCEPT !.proof = bincode_serialize(target.proof)]
      [] OTHER -> stamped

\* whether the UPDATE of set_proof_request_status matches the row of id
StatusUpdateMatches(rows, id, target) ==
    rows[id].present /\ rows[id].status \in SourceFilter(target)

\* an UPDATE without the status filter
StatusUpdate_Unguarded(rows, id, target, now) ==
    IF rows[id].present
    THEN [rows EXCEPT ![id] = SetColumns(rows[id], target, now)]
    ELSE rows

\* the table after the UPDATE
StatusUpdate(rows, id, target, now) ==
    IF StatusUpdateMatches(rows, id, target)
    THEN [rows EXCEPT ![id] = SetColumns(rows[id], target, now)]
    ELSE rows

\* Database::set_last_assignment: UPDATE mm_operators SET last_assignment = now
set_last_assignment(ops, oid, now) ==
    IF ops[oid].present THEN [ops EXCEPT ![oid].last_assignment = now] ELSE ops

\* the operator table after set_proof_request_status returns
OperatorsAfterStatus(ops, target, now) ==
    IF target.tag = "Assigned" THEN set_last_assignment(ops, target.oid, now) ELSE ops

\* ----------------------------------------------------- sequential caller
\* what a caller holds when a call has returned: the call, its result and
\* the tables as they were when it was made
Record(op, id, arg, n, ret) ==
    [op |-> op, id |-> id, arg |-> arg, n |-> n, ret |-> ret,
     requests |-> mm_proof_requests, operators |-> mm_operators,
     sled |-> sled_proof_requests]

EmptyRequests == [i \in ReqIds |-> NoRow]

EmptyOperators == [o \in OperatorIds |-> NoOperator]

EmptySled == [i \in ReqIds |-> NoParams]

NoCall ==
    [op |-> "none", id |-> 0, arg |-> Created, n |-> 0, ret |-> "Ok",
     requests |-> EmptyRequests, operators |-> EmptyOperators, sled |-> EmptySled]

\* a handler (a task of the server) with no call in flight
IdleHandler ==
    [pc |-> "idle", id |-> 0, target |-> Created, seen |-> "none", n |-> 0,
     overlap |-> {}, reqs |-> {}, ops |-> {}]

RowCount == Cardinality({i \in ReqIds : mm_proof_requests[i].present})

\* what set_proof_request_status returns after its UPDATE matched n rows:
\* n == 0 is logged, and Ok(()) is returned either way
status_result(n) == "Ok"

\* Database::set_proof_request_status, the whole call
set_proof_request_status(id, target) ==
    /\ last.op = "none"
    /\ mm_proof_requests' = StatusUpdate(mm_proof_requests, id, target, Database_now)
    /\ mm_operators' = OperatorsAfterStatus(mm_operators, target, Database_now)
    /\ last' = Record("set_proof_request_status", id, target,
                      IF StatusUpdateMatches(mm_proof_requests, id, target) THEN 1 ELSE 0,
                      status_result(IF StatusUpdateMatches(mm_proof_requests, id, target)
                                    THEN 1 ELSE 0))
    /\ UNCHANGED <<sled_proof_requests, clock, hs, mm_deadlines>>

\* the addresses that sign proof requests
Requesters == {1, 2}

\* the row try_create_proof_request inserts for a request that signer signed
\* and names as its requester
SignedRow(now, signer) ==
    [NoRow EXCEPT !.present = TRUE, !.last_status_update = now,
                  !.public_key = signer, !.requester = signer]

\* the row try_create_proof_request inserts; the request is the first requester's
CreatedRow(now) == SignedRow(now, 1)

\* Database::try_create_proof_request: INSERT ... ON CONFLICT (id) DO NOTHING
try_create_proof_request(id) ==
    /\ last.op = "none"
    /\ mm_proof_requests' =
           IF mm_proof_requests[id].present
           THEN mm_proof_requests
           ELSE [mm_proof_requests EXCEPT ![id] = CreatedRow(Database_now)]
    /\ last' = Record("try_create_proof_request", id, Created,
                      IF mm_proof_requests[id].present THEN 0 ELSE 1,
                      IF mm_proof_requests[id].present THEN "Err" ELSE "Ok")
    /\ UNCHANGED <<mm_operators, sled_proof_requests, clock, hs, mm_deadlines>>

\* the row that register_operator_from_p2p inserts: last_assignment and
\* reputation are left to the column defaults, taken to be the insertion
\* time and 0
InsertedOperator(now, resource_) ==
    [present |-> TRUE, last_interaction |-> now, online |-> TRUE, last_assignment |-> now,
     resource |-> serialize_resource(resource_), reputation |-> 0]

\* INSERT INTO mm_operators ... ON CONFLICT (id) DO NOTHING
OperatorsAfterRegister(operators, oid, now, resource_) ==
    IF operators[oid].present
    THEN operators
    ELSE [operators EXCEPT ![oid] = InsertedOperator(now, resource_)]

\* DELETE FROM mm_operators WHERE id = oid
OperatorsAfterUnregister(operators, oid) == [operators EXCEPT ![oid] = NoOperator]

\* an update that also marks the operator online
OperatorsAfterInteraction_Online(operators, oid, now) ==
    IF operators[oid].present
    THEN [operators EXCEPT ![oid].last_interaction = now, ![oid].online = TRUE,
                           ![oid].last_assignment = now]
    ELSE operators

\* UPDATE mm_operators SET last_interaction = now WHERE id = oid
OperatorsAfterInteraction(operators, oid, now) ==
    IF operators[oid].present
    THEN [operators EXCEPT ![oid].last_interaction = now]
    ELSE operators

\* Database::register_operator_from_p2p; the caller's record keeps the
\* resource it gave
register_operator_from_p2p(oid, resource_) ==
    /\ last.op = "none"
    /\ mm_operators' = OperatorsAfterRegister(mm_operators, oid, Database_now, resource_)
    /\ last' = Record("register_operator_from_p2p", oid, resource_,
                      IF mm_operators[oid].present THEN 0 ELSE 1, "Ok")
    /\ UNCHANGED <<mm_proof_requests, sled_proof_requests, clock, hs, mm_deadlines>>

\* ---------------------------------------------------- Database: payments
\* the UPDATE of set_payment_status: any payment replaces any other
PaymentUpdate(rows, id, payment, now) ==
    IF ~rows[id].present THEN rows
    ELSE IF payment.tag = "Nothing"
    THEN [rows EXCEPT ![id].last_status_update = now, ![id].payment = payment.tag]
    ELSE [rows EXCEPT ![id].last_status_update = now, ![id].payment = payment.tag,
                      ![id].amount = payment.amount]

\* Database::set_payment_status
set_payment_status(id, payment) ==
    /\ last.op = "none"
    /\ mm_proof_requests' = PaymentUpdate(mm_proof_requests, id, payment, Database_now)
    /\ last' = Record("set_payment_status", id, payment,
                      IF mm_proof_requests[id].present THEN 1 ELSE 0, "Ok")
    /\ UNCHANGED <<mm_operators, sled_proof_requests, clock, hs, mm_deadlines>>

\* a filter that forgets the payment column
ReadyUpdateMatches_AnyPayment(rows, id) == rows[id].present

\* the filter of set_payment_to_ready's UPDATE: the id, and payment = Reserved
ReadyUpdateMatches(rows, id) == rows[id].present /\ rows[id].payment = "Reserved"

\* the UPDATE of set_payment_to_ready
ReadyUpdate(rows, id, now) ==
    IF ReadyUpdateMatches(rows, id)
    THEN [rows EXCEPT ![id].last_status_update = now, ![id].payment = "ReadyToPay"]
    ELSE rows

\* Database::set_payment_to_ready: bails unless exactly one row was updated
set_payment_to_ready(id) ==
    /\ last.op = "none"
    /\ mm_proof_requests' = ReadyUpdate(mm_proof_requests, id, Database_now)
    /\ last' = Record("set_payment_to_ready", id, Nothing,
                      IF ReadyUpdateMatches(mm_proof_requests, id) THEN 1 ELSE 0,
                      IF ReadyUpdateMatches(mm_proof_requests, id) THEN "Ok" ELSE "Err")
    /\ UNCHANGED <<mm_operators, sled_proof_requests, clock, hs, mm_deadlines>>

\* the rows the UPDATE of set_proof_requests_paid matches
PaidUpdateMatches(rows, ids) ==
    {i \in ReqIds : i \in ids /\ rows[i].present /\ rows[i].payment = "ReadyToPay"}

\* the UPDATE of set_proof_requests_paid: payment = Paid, nothing else
PaidUpdate(rows, ids) ==
    [i \in ReqIds |->
        IF i \in PaidUpdateMatches(rows, ids)
        THEN [rows[i] EXCEPT !.payment = "Paid"]
        ELSE rows[i]]

\* Database::set_proof_requests_paid
set_proof_requests_paid(ids) ==
    /\ last.op = "none"
    /\ mm_proof_requests' = PaidUpdate(mm_proof_requests, ids)
    /\ last' = Record("set_proof_requests_paid", 0, ids,
                      Cardinality(PaidUpdateMatches(mm_proof_requests, ids)), "Ok")
    /\ UNCHANGED <<mm_operators, sled_proof_requests, clock, hs, mm_deadlines>>

\* ------------------------------------------------ Database: aggregation
\* U256::max_value(), scaled to four bits
U256_MAX == 15

\* the sum of the amount column over a set of rows
RECURSIVE SumAmounts(_, _)
SumAmounts(rows, ids) ==
    IF ids = {} THEN 0
    ELSE LET i == CHOOSE j \in ids : TRUE
         IN  rows[i].amount + SumAmounts(rows, ids \ {i})

\* the rows get_reserved_for_requester selects
ReservedRows(rows, addr) ==
    {i \in ReqIds : /\ rows[i].present
                    /\ rows[i].public_key = addr
                    /\ rows[i].payment = "Reserved"
                    /\ rows[i].amount # NullNumeric}

\* Database::get_reserved_for_requester: fold(U256::zero(), |acc, e| acc + e);
\* U256 addition panics when it overflows
get_reserved_for_requester(addr) ==
    LET total == SumAmounts(mm_proof_requests, ReservedRows(mm_proof_requests, addr))
    IN  IF total > U256_MAX
        THEN [ret |-> "panic", value |-> 0]
        ELSE [ret |-> "Ok", value |-> total]

\* rows that are withheld only while Reserved
NonRefundableRows_ReservedOnly(rows, addr) == ReservedRows(rows, addr)

\* the rows non_refundable_amount selects
NonRefundableRows(rows, addr) ==
    {i \in ReqIds : /\ rows[i].present
                    /\ rows[i].public_key = addr
                    /\ rows[i].payment \in {"ReadyToPay", "Reserved"}
                    /\ rows[i].amount # NullNumeric}

\* Database::non_refundable_amount: a fold with checked_add that becomes
\* U256::max_value() when the addition overflows, returned as Ok
non_refundable_amount(addr) ==
    LET total == SumAmounts(mm_proof_requests, NonRefundableRows(mm_proof_requests, addr))
    IN  [ret |-> "Ok", value |-> IF total > U256_MAX THEN U256_MAX ELSE total]

\* the orders in which a query may return a set of rows
Orders(ids) ==
    {order \in [1..Cardinality(ids) -> ids] :
        \A a, b \in 1..Cardinality(ids) : a # b => order[a] # order[b]}

\* HashMap<OperatorId, HashMap<Address, U256>>::new()
NoPayments == [pair \in OperatorIds \X Requesters |-> NullNumeric]

\* bail!("Overflow occured")
Overflow == [ret |-> "Err", payments |-> NoPayments, ids |-> <<>>]

\* the accumulation loop of the ready-to-pay queries over the rows loaded:
\* the first amount of a pair is inserted; a later amount of the pair is
\* passed to checked_add, whose sum is dropped, and the loop bails if it is None
RECURSIVE Accumulate(_, _)
Accumulate(entries, acc) ==
    IF entries = <<>> THEN acc
    ELSE LET e == Head(entries)
             pair == <<e.prover, e.requester>>
         IN  IF acc.payments[pair] # NullNumeric
             THEN IF acc.payments[pair] + e.amount > U256_MAX
                  THEN Overflow
                  ELSE Accumulate(Tail(entries), [acc EXCEPT !.ids = Append(@, e.id)])
             ELSE Accumulate(Tail(entries),
                             [acc EXCEPT !.payments[pair] = e.amount,
                                         !.ids = Append(@, e.id)])

\* the rows get_ready_to_pay_proof_requests_for_many selects
ReadyRows(rows) ==
    {i \in ReqIds : /\ rows[i].present
                    /\ rows[i].payment = "ReadyToPay"
                    /\ rows[i].assigned # NullAddr
                    /\ rows[i].requester # NullAddr
                    /\ rows[i].amount # NullNumeric}

\* the rows loaded in some order, as (prover, requester, amount, id)
Loaded(rows, order) ==
    [k \in DOMAIN order |->
        [prover |-> rows[order[k]].assigned, requester |-> rows[order[k]].requester,
         amount |-> rows[order[k]].amount, id |-> order[k]]]

\* Database::get_ready_to_pay_proof_requests_for_many: what the call may
\* return, one result for each order the rows may be loaded in
get_ready_to_pay_proof_requests_for_many ==
    {Accumulate(Loaded(mm_proof_requests, order),
                [ret |-> "Ok", payments |-> NoPayments, ids |-> <<>>]) :
        order \in Orders(ReadyRows(mm_proof_requests))}

\* Database::get_ready_to_pay_proof_requests: the same with assigned = operator
get_ready_to_pay_proof_requests(oid) ==
    {Accumulate(Loaded(mm_proof_requests, order),
                [ret |-> "Ok", payments |-> NoPayments, ids |-> <<>>]) :
        order \in Orders({i \in ReadyRows(mm_proof_requests) :
                             mm_proof_requests[i].assigned = oid})}

\* ------------------------------------------------------ InMemoryDB (sled)
\* ProofRequestParams::created for a request that signer signed and names
\* as its requester
created_by(now, signer) ==
    [present |-> TRUE, assigned |-> NullAddr, status |-> Created,
     last_status_update |-> now, payment |-> Nothing, requester |-> signer]

\* ProofRequestParams::created; the request is the first requester's
created(now) == created_by(now, 1)

\* InMemoryDB::try_create_proof_request: bails if the id is there, else inserts
InMemoryDB_try_create_proof_request(id) ==
    /\ last.op = "none"
    /\ sled_proof_requests' =
           IF sled_proof_requests[id].present
           THEN sled_proof_requests
           ELSE [sled_proof_requests EXCEPT ![id] = created(clock)]
    /\ last' = Record("InMemoryDB.try_create_proof_request", id, Created,
                      IF sled_proof_requests[id].present THEN 0 ELSE 1,
                      IF sled_proof_requests[id].present THEN "Err" ELSE "Ok")
    /\ UNCHANGED <<mm_proof_requests, mm_operators, clock, hs, mm_deadlines>>

\* InMemoryDB::set_payment_status: fetch_and_update, the payment replaced
InMemoryDB_set_payment_status(id, payment) ==
    /\ last.op = "none"
    /\ sled_proof_requests' =
           IF sled_proof_requests[id].present
           THEN [sled_proof_requests EXCEPT ![id].payment = payment]
           ELSE sled_proof_requests
    /\ last' = Record("InMemoryDB.set_payment_status", id, payment,
                      IF sled_proof_requests[id].present THEN 1 ELSE 0, "Ok")
    /\ UNCHANGED <<mm_proof_requests, mm_operators, clock, hs, mm_deadlines>>

\* the transaction of InMemoryDB::set_proof_requests_paid reaches its end:
\* every id of the batch is in the tree (else .expect panics inside it)
PaidTransactionCompletes(tree, ids) == \A i \in ids : tree[i].present

\* the tree after the transaction; a transaction that panicked wrote nothing
PaidTransaction(tree, ids) ==
    IF ~PaidTransactionCompletes(tree, ids) THEN tree
    ELSE [i \in ReqIds |->
            IF i \in ids /\ tree[i].payment.tag = "ReadyToPay"
            THEN [tree[i] EXCEPT !.payment = Payment("Paid", tree[i].payment.amount)]
            ELSE tree[i]]

\* InMemoryDB::set_proof_requests_paid
InMemoryDB_set_proof_requests_paid(ids) ==
    /\ last.op = "none"
    /\ sled_proof_requests' = PaidTransaction(sled_proof_requests, ids)
    /\ last' = Record("InMemoryDB.set_proof_requests_paid", 0, ids,
                      Cardinality({i \in ids : sled_proof_requests[i].present
                                       /\ sled_proof_requests[i].payment.tag = "ReadyToPay"}),
                      IF PaidTransactionCompletes(sled_proof_requests, ids)
                      THEN "Ok" ELSE "panic")
    /\ UNCHANGED <<mm_proof_requests, mm_operators, clock, hs, mm_deadlines>>

\* InMemoryDB::set_proof_request_status: fetch_and_update, no source filter;
\* Assigned also stores the operator in assigned
InMemoryDB_StatusUpdate(tree, id, status, now) ==
    IF ~tree[id].present THEN tree
    ELSE [tree EXCEPT ![id].last_status_update = now,
                      ![id].assigned = IF status.tag = "Assigned" THEN status.oid ELSE @,
                      ![id].status = status]

\* the entries InMemoryDB's ready-to-pay loop goes through, in key order
RECURSIVE InMemoryDB_Loaded(_, _)
InMemoryDB_Loaded(tree, ids) ==
    IF ids = {} THEN <<>>
    ELSE LET i == CHOOSE j \in ids : \A k \in ids : j <= k
         IN  <<[prover |-> tree[i].assigned, requester |-> tree[i].requester,
                amount |-> tree[i].payment.amount, id |-> i]>>
             \o InMemoryDB_Loaded(tree, ids \ {i})

\* InMemoryDB::get_ready_to_pay_proof_requests_for_many: bails if a
\* ready-to-pay request has no operator, else runs the same loop
InMemoryDB_get_ready_to_pay_proof_requests_for_many ==
    LET ready == {i \in ReqIds : /\ sled_proof_requests[i].present
                                 /\ sled_proof_requests[i].payment.tag = "ReadyToPay"}
    IN  IF \E i \in ready : sled_proof_requests[i].assigned = NullAddr
        THEN [ret |-> "Err", payments |-> NoPayments, ids |-> <<>>]
        ELSE Accumulate(InMemoryDB_Loaded(sled_proof_requests, ready),
                        [ret |-> "Ok", payments |-> NoPayments, ids |-> <<>>])

\* a client submits a request it signed to the sled store
SledSubmit(id, signer) ==
    /\ ~sled_proof_requests[id].present
    /\ sled_proof_requests' = [sled_proof_requests EXCEPT ![id] = created_by(clock, signer)]
    /\ UNCHANGED <<mm_proof_requests, mm_operators, clock, hs, last, mm_deadlines>>

\* the server assigns a stored request in the sled store
SledAssign(id, oid) ==
    /\ sled_proof_requests[id].present
    /\ sled_proof_requests' =
           InMemoryDB_StatusUpdate(sled_proof_requests, id, Assigned(oid), clock)
    /\ UNCHANGED <<mm_proof_requests, mm_operators, clock, hs, last, mm_deadlines>>

\* the server makes an assigned request ready to pay in the sled store
SledReadyToPay(id, a) ==
    /\ sled_proof_requests[id].present
    /\ sled_proof_requests[id].assigned # NullAddr
    /\ sled_proof_requests' =
           [sled_proof_requests EXCEPT ![id].payment = Payment("ReadyToPay", a)]
    /\ UNCHANGED <<mm_proof_requests, mm_operators, clock, hs, last, mm_deadlines>>

\* the server records a payment state in the sled store: set_payment_status,
\* its result dropped
SledPay(id, payment) ==
    /\ sled_proof_requests[id].present
    /\ sled_proof_requests' = [sled_proof_requests EXCEPT ![id].payment = payment]
    /\ UNCHANGED <<mm_proof_requests, mm_operators, clock, hs, last, mm_deadlines>>

\* ---- InMemoryDB::try_create_proof_request, statement by statement
\* the handler's get runs: the call bails if it finds a record; seen is what
\* the call returns
SledCreateGet(h, id) ==
    /\ hs[h].pc = "idle"
    /\ hs' = [hs EXCEPT ![h] = [IdleHandler EXCEPT
                 !.pc = IF sled_proof_requests[id].present
                        THEN "sled_created" ELSE "sled_insert",
                 !.id = id,
                 !.seen = IF sled_proof_requests[id].present THEN "Err" ELSE "none"]]
    /\ UNCHANGED <<mm_proof_requests, mm_operators, sled_proof_requests, clock, last,
                   mm_deadlines>>

\* the handler's insert runs and stores the created record whatever is there,
\* its return value (the old record, kept in reqs) dropped; n counts the
\* record it replaced
SledCreateInsert(h) ==
    /\ hs[h].pc = "sled_insert"
    /\ sled_proof_requests' = [sled_proof_requests EXCEPT ![hs[h].id] = created(clock)]
    /\ hs' = [hs EXCEPT
                 ![h].n = IF sled_proof_requests[hs[h].id].present THEN 1 ELSE 0,
                 ![h].reqs = IF sled_proof_requests[hs[h].id].present
                             THEN {sled_proof_requests[hs[h].id]} ELSE {},
                 ![h].seen = "Ok",
                 ![h].pc = "sled_created"]
    /\ UNCHANGED <<mm_proof_requests, mm_operators, clock, last, mm_deadlines>>

\* ---- set_payment_to_ready, statement by statement
\* the calls of a store that are between their first and their last statement
ReadyInFlight(store, id) ==
    {g \in Handlers : /\ hs[g].pc \in {"ready", "ready_fetch", "ready_swap"}
                      /\ hs[g].seen = store /\ hs[g].id = id}

\* a handler enters set_payment_to_ready(id) of a store while the payment of
\* the record is Reserved; seen is the store, overlap the calls it races with
ReadyIssue(h, store, id) ==
    /\ hs[h].pc = "idle"
    /\ IF store = "Database"
       THEN mm_proof_requests[id].present /\ mm_proof_requests[id].payment = "Reserved"
       ELSE sled_proof_requests[id].present
                /\ sled_proof_requests[id].payment.tag = "Reserved"
    /\ hs' = [hs EXCEPT ![h] = [IdleHandler EXCEPT
                 !.pc = IF store = "Database" THEN "ready" ELSE "ready_fetch",
                 !.id = id, !.seen = store, !.overlap = ReadyInFlight(store, id)]]
    /\ UNCHANGED <<mm_proof_requests, mm_operators, sled_proof_requests, clock, last,
                   mm_deadlines>>

\* Database::set_payment_to_ready: the UPDATE runs, atomically; n is its row
\* count and reqs holds what makes the call bail
ReadyExecute(h) ==
    /\ hs[h].pc = "ready"
    /\ mm_proof_requests' = ReadyUpdate(mm_proof_requests, hs[h].id, Database_now)
    /\ hs' = [hs EXCEPT
                 ![h].n = IF ReadyUpdateMatches(mm_proof_requests, hs[h].id) THEN 1 ELSE 0,
                 ![h].reqs = IF ReadyUpdateMatches(mm_proof_requests, hs[h].id)
                             THEN {} ELSE {mm_proof_requests[hs[h].id].payment},
                 ![h].pc = "ready_done"]
    /\ UNCHANGED <<mm_operators, sled_proof_requests, clock, last, mm_deadlines>>

\* InMemoryDB::set_payment_to_ready: fetch_and_update reads the value and
\* runs the closure on it; ops holds the value read, and reqs holds
\* incorrect_status, which the closure sets and never clears
SledReadyFetch(h) ==
    /\ hs[h].pc = "ready_fetch"
    /\ LET params == sled_proof_requests[hs[h].id]
       IN  hs' = [hs EXCEPT
                     ![h].ops = {params},
                     ![h].reqs = IF params.payment.tag = "Reserved"
                                 THEN @ ELSE {params.payment},
                     ![h].pc = "ready_swap"]
    /\ UNCHANGED <<mm_proof_requests, mm_operators, sled_proof_requests, clock, last,
                   mm_deadlines>>

\* fetch_and_update swaps the closure's value in if the stored value is
\* still the one it read, and reads again and runs the closure again if not;
\* n is 1 when the value swapped in changed Reserved to ReadyToPay
SledReadySwap(h) ==
    /\ hs[h].pc = "ready_swap"
    /\ LET params == CHOOSE read \in hs[h].ops : TRUE
           reserved == params.payment.tag = "Reserved"
       IN  IF sled_proof_requests[hs[h].id] = params
           THEN /\ sled_proof_requests' =
                       IF reserved
                       THEN [sled_proof_requests EXCEPT
                                ![hs[h].id].payment =
                                    Payment("ReadyToPay", params.payment.amount)]
                       ELSE sled_proof_requests
                /\ hs' = [hs EXCEPT ![h].n = IF reserved THEN 1 ELSE 0,
                                    ![h].pc = "ready_done"]
           ELSE /\ sled_proof_requests' = sled_proof_requests
                /\ hs' = [hs EXCEPT ![h].pc = "ready_fetch"]
    /\ UNCHANGED <<mm_proof_requests, mm_operators, clock, last, mm_deadlines>>

\* what set_payment_to_ready returns: both stores bail if they have
\* something to report
ready_result(h) == IF hs[h].reqs = {} THEN "Ok" ELSE "Err"

\* a caller makes the same try_create_proof_request call on both stores
BothCreate(id) ==
    /\ mm_proof_requests' =
           IF mm_proof_requests[id].present
           THEN mm_proof_requests
           ELSE [mm_proof_requests EXCEPT ![id] = CreatedRow(Database_now)]
    /\ sled_proof_requests' =
           IF sled_proof_requests[id].present
           THEN sled_proof_requests
           ELSE [sled_proof_requests EXCEPT ![id] = created(clock)]
    /\ UNCHANGED <<mm_operators, clock, hs, last, mm_deadlines>>

\* a caller makes the same set_proof_request_status call on both stores
BothSetStatus(id, target) ==
    /\ mm_proof_requests' = StatusUpdate(mm_proof_requests, id, target, Database_now)
    /\ mm_operators' = OperatorsAfterStatus(mm_operators, target, Database_now)
    /\ sled_proof_requests' = InMemoryDB_StatusUpdate(sled_proof_requests, id, target, clock)
    /\ UNCHANGED <<clock, hs, last, mm_deadlines>>

\* ------------------------------- set_proof_request_status, statement by statement
\* a handler enters set_proof_request_status(id, target) and takes a connection;
\* seen is the status the record has at that moment
Issue(h, id, target) ==
    /\ hs[h].pc = "idle"
    /\ hs' = [hs EXCEPT ![h] = [IdleHandler EXCEPT
                 !.pc = "update", !.id = id, !.target = target,
                 !.seen = IF mm_proof_requests[id].present
                          THEN mm_proof_requests[id].status ELSE "none"]]
    /\ UNCHANGED <<mm_proof_requests, mm_operators, sled_proof_requests, clock, last,
                   mm_deadlines>>

\* the handler's UPDATE statement runs, atomically; overlap is the set of the
\* handlers whose statement on the same record is still to run
Execute(h) ==
    /\ hs[h].pc = "update"
    /\ mm_proof_requests' =
           StatusUpdate(mm_proof_requests, hs[h].id, hs[h].target, Database_now)
    /\ hs' = [hs EXCEPT
                 ![h].n = IF StatusUpdateMatches(mm_proof_requests, hs[h].id, hs[h].target)
                          THEN 1 ELSE 0,
                 ![h].overlap = {g \in Handlers \ {h} :
                                    hs[g].pc = "update" /\ hs[g].id = hs[h].id},
                 ![h].pc = IF hs[h].target.tag = "Assigned" THEN "touch" ELSE "done"]
    /\ UNCHANGED <<mm_operators, sled_proof_requests, clock, last, mm_deadlines>>

\* the second statement of the Assigned branch: set_last_assignment
TouchOperator(h) ==
    /\ hs[h].pc = "touch"
    /\ mm_operators' = set_last_assignment(mm_operators, hs[h].target.oid, Database_now)
    /\ hs' = [hs EXCEPT ![h].pc = "done"]
    /\ UNCHANGED <<mm_proof_requests, sled_proof_requests, clock, last, mm_deadlines>>

\* the call returns Ok(()) and the handler is free for another call
Finish(h) ==
    /\ hs[h].pc = "done"
    /\ hs' = [hs EXCEPT ![h] = IdleHandler]
    /\ UNCHANGED <<mm_proof_requests, mm_operators, sled_proof_requests, clock, last,
                   mm_deadlines>>

\* ------------------------------- try_create_proof_request, statement by statement
\* an INSERT that reports a row also when the id is already there
InsertMatches_Always(rows, id) == TRUE

\* the row count of INSERT ... ON CONFLICT (id) DO NOTHING
InsertMatches(rows, id) == ~rows[id].present

\* the table after the INSERT
InsertRequest(rows, id, now) ==
    IF rows[id].present THEN rows ELSE [rows EXCEPT ![id] = CreatedRow(now)]

\* ensure!(n == 1, ...); Ok(proof_request_id)
create_result(n) == IF n = 1 THEN "Ok" ELSE "Err"

\* a handler enters try_create_proof_request and takes a connection
CreateIssue(h, id) ==
    /\ hs[h].pc = "idle"
    /\ hs' = [hs EXCEPT ![h] = [IdleHandler EXCEPT
                 !.pc = "insert", !.id = id,
                 !.seen = IF mm_proof_requests[id].present
                          THEN mm_proof_requests[id].status ELSE "none"]]
    /\ UNCHANGED <<mm_proof_requests, mm_operators, sled_proof_requests, clock, last,
                   mm_deadlines>>

\* the handler's INSERT statement runs, atomically
CreateExecute(h) ==
    /\ hs[h].pc = "insert"
    /\ mm_proof_requests' = InsertRequest(mm_proof_requests, hs[h].id, Database_now)
    /\ hs' = [hs EXCEPT
                 ![h].n = IF InsertMatches(mm_proof_requests, hs[h].id) THEN 1 ELSE 0,
                 ![h].overlap = {g \in Handlers \ {h} :
                                    hs[g].pc = "insert" /\ hs[g].id = hs[h].id},
                 ![h].pc = "inserted"]
    /\ UNCHANGED <<mm_operators, sled_proof_requests, clock, last, mm_deadlines>>

\* the call returns create_result(n) and the handler is free for another call
CreateFinish(h) ==
    /\ hs[h].pc = "inserted"
    /\ hs' = [hs EXCEPT ![h] = IdleHandler]
    /\ UNCHANGED <<mm_proof_requests, mm_operators, sled_proof_requests, clock, last,
                   mm_deadlines>>

\* ------------------------------------------------------- scheduling reads
\* the time after which an unacknowledged assignment is offered again, in ticks
ReassignmentTicks == REASSIGNMENT_SECONDS * TicksPerSecond

\* a WHERE clause that wants more than the reassignment time to have passed
NeedsAssignment_Later(row) ==
    /\ row.present
    /\ \/ row.status = "Accepted"
       \/ /\ row.status = "Assigned"
          /\ row.last_status_update < clock - ReassignmentTicks

\* the WHERE clause of proof_requests_need_assignment
NeedsAssignment(row) ==
    /\ row.present
    /\ \/ row.status = "Accepted"
       \/ /\ row.status = "Assigned"
          /\ row.last_status_update <= clock - ReassignmentTicks

\* Database::proof_requests_need_assignment
proof_requests_need_assignment ==
    {i \in ReqIds : NeedsAssignment(mm_proof_requests[i])}

\* an operator that is online for two minutes after its last interaction
is_online_TwoMinutes(operator) ==
    operator.online /\ (clock - operator.last_interaction) \div (60 * TicksPerSecond) < 2

\* OperatorInfo::is_online
is_online(operator) ==
    operator.online /\ (clock - operator.last_interaction) \div (60 * TicksPerSecond) < 3

\* OperatorInfo::is_temporary_offline
is_temporary_offline(operator) ==
    operator.online /\ (clock - operator.last_interaction) \div (60 * TicksPerSecond) >= 3

\* impl From<MmOperator> for OperatorInfo
OperatorInfo_from(oid, value) ==
    [operator_id |-> oid, resource |-> deserialize_resource(value.resource),
     reputation |-> value.reputation, last_interaction |-> value.last_interaction,
     online |-> value.online, last_assignment |-> value.last_assignment]

\* Database::get_operator
get_operator(oid) ==
    IF mm_operators[oid].present
    THEN Some(OperatorInfo_from(oid, mm_operators[oid]))
    ELSE None

\* the fold of get_operator_counts over the loaded rows
RECURSIVE CountOperators(_, _)
CountOperators(oids, counts) ==
    IF oids = {} THEN counts
    ELSE LET oid == CHOOSE o \in oids : TRUE
             operator == OperatorInfo_from(oid, mm_operators[oid])
         IN  CountOperators(oids \ {oid},
                 [all |-> counts.all + 1,
                  online |-> counts.online + (IF is_online(operator) THEN 1 ELSE 0),
                  temporary_offline |->
                      counts.temporary_offline
                          + (IF ~is_online(operator) /\ operator.online THEN 1 ELSE 0)])

\* counts over every operator id, stored or not
get_operator_counts_Every ==
    CountOperators(OperatorIds, [all |-> 0, online |-> 0, temporary_offline |-> 0])

\* Database::get_operator_counts
get_operator_counts ==
    CountOperators({o \in OperatorIds : mm_operators[o].present},
                   [all |-> 0, online |-> 0, temporary_offline |-> 0])

\* a subquery that forgets the acknowledged assignments
occupied_operator_query_AssignedOnly ==
    {mm_proof_requests[i].operator_id : i \in
        {j \in ReqIds : /\ mm_proof_requests[j].present
                        /\ mm_proof_requests[j].status = "Assigned"
                        /\ mm_proof_requests[j].operator_id # NullAddr}}

\* the subquery of available_operators: operator_id of the occupying rows
occupied_operator_query ==
    {mm_proof_requests[i].operator_id : i \in
        {j \in ReqIds : /\ mm_proof_requests[j].present
                        /\ mm_proof_requests[j].status \in
                               {"Assigned", "AcknowledgedAssignment"}
                        /\ mm_proof_requests[j].operator_id # NullAddr}}

\* Database::available_operators
available_operators ==
    {o \in OperatorIds : /\ mm_operators[o].present
                         /\ o \notin occupied_operator_query
                         /\ is_online(mm_operators[o])}

\* Database::unregister_operator_from_p2p
unregister_operator_from_p2p(oid) ==
    /\ last.op = "none"
    /\ mm_operators' = OperatorsAfterUnregister(mm_operators, oid)
    /\ last' = Record("unregister_operator_from_p2p", oid, Created,
                      IF mm_operators[oid].present THEN 1 ELSE 0, "Ok")
    /\ UNCHANGED <<mm_proof_requests, sled_proof_requests, clock, hs, mm_deadlines>>

\* Database::update_last_interaction
update_last_interaction(oid) ==
    /\ last.op = "none"
    /\ mm_operators' = OperatorsAfterInteraction(mm_operators, oid, Database_now)
    /\ last' = Record("update_last_interaction", oid, Created,
                      IF mm_operators[oid].present THEN 1 ELSE 0, "Ok")
    /\ UNCHANGED <<mm_proof_requests, sled_proof_requests, clock, hs, mm_deadlines>>

\* the time after which a silent operator is not online any more, in ticks
OfflineTicks == 3 * 60 * TicksPerSecond

\* nothing happens for three minutes
Idle ==
    /\ last.op = "none"
    /\ clock < MaxSleeps * OfflineTicks
    /\ clock' = clock + OfflineTicks
    /\ UNCHANGED <<mm_proof_requests, mm_operators, sled_proof_requests, hs, last,
                   mm_deadlines>>

\* the deadlines that requests are given
Deadlines == {4, 6, 8}

\* a row of mm_deadlines
DeadlineRow(proof_request_id, deadline_) ==
    [pr_id |-> proof_request_id, deadline |-> deadline_]

\* a plain INSERT of the row
DeadlinesAfterAdd_Insert(deadlines, proof_request_id, deadline_) ==
    deadlines \cup {DeadlineRow(proof_request_id, deadline_)}

\* INSERT INTO mm_deadlines ... ON CONFLICT (pr_id) DO UPDATE SET deadline
DeadlinesAfterAdd(deadlines, proof_request_id, deadline_) ==
    IF \E row \in deadlines : row.pr_id = proof_request_id
    THEN {IF row.pr_id = proof_request_id
          THEN [row EXCEPT !.deadline = deadline_]
          ELSE row : row \in deadlines}
    ELSE deadlines \cup {DeadlineRow(proof_request_id, deadline_)}

\* Database::add
add(proof_request_id, deadline_) ==
    /\ last.op = "none"
    /\ mm_deadlines' = DeadlinesAfterAdd(mm_deadlines, proof_request_id, deadline_)
    /\ last' = Record("add", proof_request_id,
                      [deadline |-> deadline_, before |-> mm_deadlines], 0, "Ok")
    /\ UNCHANGED <<mm_proof_requests, mm_operators, sled_proof_requests, clock, hs>>

\* Database::remove: DELETE FROM mm_deadlines WHERE pr_id = id RETURNING
\* deadline, the first returned row if there is one
remove(proof_request_id) ==
    /\ last.op = "none"
    /\ LET deleted == {row \in mm_deadlines : row.pr_id = proof_request_id}
       IN  /\ mm_deadlines' = mm_deadlines \ deleted
           /\ \E maybe_deadline \in
                     IF deleted = {} THEN {None} ELSE {Some(row.deadline) : row \in deleted} :
                  last' = Record("remove", proof_request_id,
                                 [result |-> maybe_deadline, before |-> mm_deadlines],
                                 Cardinality(deleted), "Ok")
    /\ UNCHANGED <<mm_proof_requests, mm_operators, sled_proof_requests, clock, hs>>

\* the row with the latest deadline
get_nearest_Latest ==
    IF mm_deadlines = {} THEN {None}
    ELSE {Some(<<row.pr_id, row.deadline>>) :
              row \in {r \in mm_deadlines : \A q \in mm_deadlines : r.deadline >= q.deadline}}

\* Database::get_nearest: SELECT pr_id, deadline ORDER BY deadline ASC, the
\* first row if there is one; among rows of one deadline it is any of them
get_nearest ==
    IF mm_deadlines = {} THEN {None}
    ELSE {Some(<<row.pr_id, row.deadline>>) :
              row \in {r \in mm_deadlines : \A q \in mm_deadlines : r.deadline <= q.deadline}}

\* a caller asks for the nearest deadline
Nearest ==
    /\ last.op = "none"
    /\ \E maybe_nearest \in get_nearest :
           last' = Record("get_nearest", 0,
                          [result |-> maybe_nearest, before |-> mm_deadlines], 0, "Ok")
    /\ UNCHANGED <<mm_proof_requests, mm_operators, sled_proof_requests, clock, hs,
                   mm_deadlines>>

\* one tick less than three minutes passes
Nap ==
    /\ last.op = "none"
    /\ clock < MaxSleeps * OfflineTicks
    /\ clock' = clock + OfflineTicks - 1
    /\ UNCHANGED <<mm_proof_requests, mm_operators, sled_proof_requests, hs, last,
                   mm_deadlines>>

\* a caller asks is_online and is_temporary_offline of the OperatorInfo of a
\* stored operator, its online field as stored or cleared by the caller
Observe(oid, flag) ==
    /\ last.op = "none"
    /\ mm_operators[oid].present
    /\ LET operator == [OperatorInfo_from(oid, mm_operators[oid]) EXCEPT !.online = flag]
       IN  last' = Record("is_online", oid,
                          [operator |-> operator, is_online |-> is_online(operator),
                           is_temporary_offline |-> is_temporary_offline(operator)],
                          0, "Ok")
    /\ UNCHANGED <<mm_proof_requests, mm_operators, sled_proof_requests, clock, hs,
                   mm_deadlines>>

\* a caller asks for the counts of the operators
Count ==
    /\ last.op = "none"
    /\ last' = Record("get_operator_counts", 0, get_operator_counts, 0, "Ok")
    /\ UNCHANGED <<mm_proof_requests, mm_operators, sled_proof_requests, clock, hs,
                   mm_deadlines>>

\* an INSERT that replaces the row it conflicts with
RequestsAfterCreate_Replace(rows, id, signer, now) ==
    [rows EXCEPT ![id] = SignedRow(now, signer)]

\* the INSERT of try_create_proof_request with its ON CONFLICT (id) DO NOTHING
RequestsAfterCreate(rows, id, signer, now) ==
    IF rows[id].present THEN rows ELSE [rows EXCEPT ![id] = SignedRow(now, signer)]

\* Database::try_create_proof_request for a request that signer signed
try_create_signed_proof_request(id, signer) ==
    /\ last.op = "none"
    /\ mm_proof_requests' = RequestsAfterCreate(mm_proof_requests, id, signer, Database_now)
    /\ last' = Record("try_create_proof_request", id, Created,
                      IF mm_proof_requests[id].present THEN 0 ELSE 1,
                      IF mm_proof_requests[id].present THEN "Err" ELSE "Ok")
    /\ UNCHANGED <<mm_operators, sled_proof_requests, clock, hs, mm_deadlines>>

\* a client submits a request that is not stored yet: try_create_proof_request,
\* its result dropped
Submit(id) ==
    /\ ~mm_proof_requests[id].present
    /\ mm_proof_requests' = [mm_proof_requests EXCEPT ![id] = CreatedRow(Database_now)]
    /\ UNCHANGED <<mm_operators, sled_proof_requests, clock, hs, last, mm_deadlines>>

\* a client submits a request it signed: try_create_proof_request, its
\* result dropped
SubmitSigned(id, signer) ==
    /\ ~mm_proof_requests[id].present
    /\ mm_proof_requests' =
           [mm_proof_requests EXCEPT ![id] = SignedRow(Database_now, signer)]
    /\ UNCHANGED <<mm_operators, sled_proof_requests, clock, hs, last, mm_deadlines>>

\* the server assigns an Accepted request:
\* set_proof_request_status(id, Assigned(oid)), its result dropped
Assign(id, oid) ==
    /\ mm_proof_requests[id].present
    /\ mm_proof_requests[id].status = "Accepted"
    /\ mm_proof_requests' =
           StatusUpdate(mm_proof_requests, id, Assigned(oid), Database_now)
    /\ mm_operators' = OperatorsAfterStatus(mm_operators, Assigned(oid), Database_now)
    /\ UNCHANGED <<sled_proof_requests, clock, hs, last, mm_deadlines>>

\* the server accepts a Created request: set_proof_request_status(id, Accepted)
Accept(id) ==
    /\ mm_proof_requests[id].present
    /\ mm_proof_requests[id].status = "Created"
    /\ mm_proof_requests' = StatusUpdate(mm_proof_requests, id, Accepted, Database_now)
    /\ UNCHANGED <<mm_operators, sled_proof_requests, clock, hs, last, mm_deadlines>>

\* an operator that is not registered connects: register_operator_from_p2p
Join(oid) ==
    /\ ~mm_operators[oid].present
    /\ mm_operators' = [mm_operators EXCEPT
                           ![oid] = InsertedOperator(Database_now, SmallResource)]
    /\ UNCHANGED <<mm_proof_requests, sled_proof_requests, clock, hs, last, mm_deadlines>>

\* a handler asks whether a resource fulfills a requirement; it keeps the
\* two in ops and reqs, and n is 1 for true and 0 for false
Fit(h, resource, requirement) ==
    /\ hs[h].pc = "idle"
    /\ hs' = [hs EXCEPT ![h] = [IdleHandler EXCEPT
                 !.pc = "fit", !.ops = {resource}, !.reqs = {requirement},
                 !.n = IF fulfills(resource, requirement) THEN 1 ELSE 0]]
    /\ UNCHANGED <<mm_proof_requests, mm_operators, sled_proof_requests, clock, last,
                   mm_deadlines>>

\* the handler has used the answer
FitDone(h) ==
    /\ hs[h].pc = "fit"
    /\ hs' = [hs EXCEPT ![h] = IdleHandler]
    /\ UNCHANGED <<mm_proof_requests, mm_operators, sled_proof_requests, clock, last,
                   mm_deadlines>>

\* a handler assigns a request, set_proof_request_status(id, Assigned(oid)),
\* and keeps the time at which the call was applied in n
TimedAssign(h, id, oid) ==
    /\ hs[h].pc = "idle"
    /\ StatusUpdateMatches(mm_proof_requests, id, Assigned(oid))
    /\ mm_proof_requests' = StatusUpdate(mm_proof_requests, id, Assigned(oid), Database_now)
    /\ mm_operators' = OperatorsAfterStatus(mm_operators, Assigned(oid), Database_now)
    /\ hs' = [hs EXCEPT ![h] = [IdleHandler EXCEPT
                 !.pc = "assigned", !.id = id, !.target = Assigned(oid), !.n = clock]]
    /\ UNCHANGED <<sled_proof_requests, clock, last, mm_deadlines>>

\* the operator acknowledges the assignment the handler made, and the
\* handler is free for another call
TimedAcknowledge(h) ==
    /\ hs[h].pc = "assigned"
    /\ mm_proof_requests' =
           StatusUpdate(mm_proof_requests, hs[h].id,
                        AcknowledgedAssignment(hs[h].target.oid), Database_now)
    /\ mm_operators' = OperatorsAfterStatus(mm_operators,
                           AcknowledgedAssignment(hs[h].target.oid), Database_now)
    /\ hs' = [hs EXCEPT ![h] = IdleHandler]
    /\ UNCHANGED <<sled_proof_requests, clock, last, mm_deadlines>>

\* the minimums below a set minimum
LowerMinimums(minimum) ==
    IF minimum.some THEN {Some(v) : v \in 0..(minimum.value - 1)} ELSE {}

\* a list without its element at an index
RemoveAt(list, i) == [k \in 1..(Len(list) - 1) |-> IF k < i THEN list[k] ELSE list[k + 1]]

\* the requirements that ask for less than a requirement, each with the way
\* it asks for less: a tier removed, a tier replaced by one that is lower in
\* the order of GPUModel, a set minimum lowered, a set minimum unset
Relaxations(req) ==
    {<<"remove", [req EXCEPT !.min_gpu = RemoveAt(req.min_gpu, i)]>> :
        i \in DOMAIN req.min_gpu}
    \cup {<<"replace", [req EXCEPT !.min_gpu[t[1]] = t[2]]>> :
            t \in {u \in (DOMAIN req.min_gpu) \X GPUModels :
                      GPUModel_rank(u[2]) < GPUModel_rank(req.min_gpu[u[1]])}}
    \cup {<<"lower", [req EXCEPT !.min_vram = m]>> : m \in LowerMinimums(req.min_vram)}
    \cup {<<"lower", [req EXCEPT !.min_ram = m]>> : m \in LowerMinimums(req.min_ram)}
    \cup {<<"lower", [req EXCEPT !.min_ssd = m]>> : m \in LowerMinimums(req.min_ssd)}
    \cup {<<"lower", [req EXCEPT !.min_cpu_cores = m]>> :
            m \in LowerMinimums(req.min_cpu_cores)}
    \cup {<<"unset", [req EXCEPT !.min_vram = None]>> : m \in {req.min_vram} \ {None}}
    \cup {<<"unset", [req EXCEPT !.min_ram = None]>> : m \in {req.min_ram} \ {None}}
    \cup {<<"unset", [req EXCEPT !.min_ssd = None]>> : m \in {req.min_ssd} \ {None}}
    \cup {<<"unset", [req EXCEPT !.min_cpu_cores = None]>> :
            m \in {req.min_cpu_cores} \ {None}}

\* a handler asks whether a resource fulfills a requirement and one that asks
\* for less; it keeps the resource in ops, the two requirements in reqs and
\* the way the second asks for less in seen; n is the first answer and
\* overlap is not empty when the second answer is true
Relax(h, resource, requirement, relaxation) ==
    /\ hs[h].pc = "idle"
    /\ hs' = [hs EXCEPT ![h] = [IdleHandler EXCEPT
                 !.pc = "relax", !.ops = {resource},
                 !.reqs = {<<requirement, relaxation[2]>>},
                 !.seen = relaxation[1],
                 !.n = IF fulfills(resource, requirement) THEN 1 ELSE 0,
                 !.overlap = IF fulfills(resource, relaxation[2]) THEN {h} ELSE {}]]
    /\ UNCHANGED <<mm_proof_requests, mm_operators, sled_proof_requests, clock, last,
                   mm_deadlines>>

\* the handler has used the two answers
RelaxDone(h) ==
    /\ hs[h].pc = "relax"
    /\ hs' = [hs EXCEPT ![h] = IdleHandler]
    /\ UNCHANGED <<mm_proof_requests, mm_operators, sled_proof_requests, clock, last,
                   mm_deadlines>>

\* a handler ranks three resources; it keeps them in ops and the results of
\* a.cmp(b), b.cmp(c) and a.cmp(c) in reqs
Rank(h, a, b, c) ==
    /\ hs[h].pc = "idle"
    /\ hs' = [hs EXCEPT ![h] = [IdleHandler EXCEPT
                 !.pc = "rank", !.ops = {<<a, b, c>>},
                 !.reqs = {<<Resource_cmp(a, b), Resource_cmp(b, c), Resource_cmp(a, c)>>}]]
    /\ UNCHANGED <<mm_proof_requests, mm_operators, sled_proof_requests, clock, last,
                   mm_deadlines>>

\* the handler has used the ranking
RankDone(h) ==
    /\ hs[h].pc = "rank"
    /\ hs' = [hs EXCEPT ![h] = IdleHandler]
    /\ UNCHANGED <<mm_proof_requests, mm_operators, sled_proof_requests, clock, last,
                   mm_deadlines>>

\* the server records a payment state of a stored request: set_payment_status,
\* its result dropped
Pay(id, payment) ==
    /\ mm_proof_requests[id].present
    /\ mm_proof_requests' = PaymentUpdate(mm_proof_requests, id, payment, Database_now)
    /\ UNCHANGED <<mm_operators, sled_proof_requests, clock, hs, last, mm_deadlines>>

\* the server releases a payment: set_payment_to_ready, its result dropped
MakeReady(id) ==
    /\ mm_proof_requests[id].present
    /\ mm_proof_requests' = ReadyUpdate(mm_proof_requests, id, Database_now)
    /\ UNCHANGED <<mm_operators, sled_proof_requests, clock, hs, last, mm_deadlines>>

\* the server settles a batch: set_proof_requests_paid, its result dropped
Settle(ids) ==
    /\ PaidUpdateMatches(mm_proof_requests, ids) # {}
    /\ mm_proof_requests' = PaidUpdate(mm_proof_requests, ids)
    /\ UNCHANGED <<mm_operators, sled_proof_requests, clock, hs, last, mm_deadlines>>

\* a scheduling pass begins: it reads the requests that need assignment
PassStart(h) ==
    /\ hs[h].pc = "idle"
    /\ hs' = [hs EXCEPT ![h] = [IdleHandler EXCEPT
                 !.pc = "operators", !.reqs = proof_requests_need_assignment]]
    /\ UNCHANGED <<mm_proof_requests, mm_operators, sled_proof_requests, clock, last,
                   mm_deadlines>>

\* the pass reads the available operators
PassOperators(h) ==
    /\ hs[h].pc = "operators"
    /\ hs' = [hs EXCEPT ![h].pc = "pick", ![h].ops = available_operators]
    /\ UNCHANGED <<mm_proof_requests, mm_operators, sled_proof_requests, clock, last,
                   mm_deadlines>>

\* the pass picks a request and an operator it has read and enters
\* set_proof_request_status(id, Assigned(oid))
PassPick(h, id, oid) ==
    /\ hs[h].pc = "pick"
    /\ id \in hs[h].reqs
    /\ oid \in hs[h].ops
    /\ hs' = [hs EXCEPT ![h].pc = "update", ![h].id = id, ![h].target = Assigned(oid),
                        ![h].seen = IF mm_proof_requests[id].present
                                    THEN mm_proof_requests[id].status ELSE "none"]
    /\ UNCHANGED <<mm_proof_requests, mm_operators, sled_proof_requests, clock, last,
                   mm_deadlines>>

\* the pass found no request or no operator and ends
PassEmpty(h) ==
    /\ hs[h].pc = "pick"
    /\ hs[h].reqs = {} \/ hs[h].ops = {}
    /\ hs' = [hs EXCEPT ![h] = IdleHandler]
    /\ UNCHANGED <<mm_proof_requests, mm_operators, sled_proof_requests, clock, last,
                   mm_deadlines>>

\* the reassignment time passes
Sleep ==
    /\ last.op = "none"
    /\ clock < MaxSleeps * ReassignmentTicks
    /\ clock' = clock + ReassignmentTicks
    /\ UNCHANGED <<mm_proof_requests, mm_operators, sled_proof_requests, hs, last,
                   mm_deadlines>>

\* one tick less than the reassignment time passes
Doze ==
    /\ last.op = "none"
    /\ clock < MaxSleeps * ReassignmentTicks
    /\ clock' = clock + ReassignmentTicks - 1
    /\ UNCHANGED <<mm_proof_requests, mm_operators, sled_proof_requests, hs, last,
                   mm_deadlines>>

\* the caller has looked at the result and goes on
Return ==
    /\ last.op # "none"
    /\ last' = NoCall
    /\ UNCHANGED <<mm_proof_requests, mm_operators, sled_proof_requests, clock, hs,
                   mm_deadlines>>

\* the wall clock advances by one tick
Tick ==
    /\ last.op = "none"
    /\ clock < MaxTicks
    /\ clock' = clock + 1
    /\ UNCHANGED <<mm_proof_requests, mm_operators, sled_proof_requests, hs, last,
                   mm_deadlines>>

Init ==
    /\ mm_proof_requests = EmptyRequests
    /\ mm_operators = EmptyOperators
    /\ sled_proof_requests = EmptySled
    /\ clock = 0
    /\ hs = [h \in Handlers |-> IdleHandler]
    /\ last = NoCall
    /\ mm_deadlines = {}

SetStatusStep == \E id \in ReqIds, target \in Targets : set_proof_request_status(id, target)

CreateStep ==
    \E id \in ReqIds :
        /\ RowCount < MaxRows \/ mm_proof_requests[id].present
        /\ try_create_proof_request(id)

RegisterStep == \E oid \in OperatorIds : register_operator_from_p2p(oid, SmallResource)

\* the status machine driven by one caller at a time
Next == SetStatusStep \/ CreateStep \/ RegisterStep \/ Return \/ Tick

Spec == Init /\ [][Next]_vars

\* the payment columns of the Postgres store driven by one caller at a time
CreateAnyStep == \E id \in ReqIds : try_create_proof_request(id)

SetPaymentStep == \E id \in ReqIds, payment \in Payments : set_payment_status(id, payment)

PaymentReadyStep == \E id \in ReqIds : set_payment_to_ready(id)

PaidStep == \E ids \in SUBSET ReqIds : set_proof_requests_paid(ids)

NextPay == CreateAnyStep \/ SetPaymentStep \/ PaymentReadyStep \/ PaidStep \/ Return \/ Tick

SpecPay == Init /\ [][NextPay]_vars

\* the payments of the sled store driven by one caller at a time
SledCreateStep == \E id \in ReqIds : InMemoryDB_try_create_proof_request(id)

SledSetPaymentStep ==
    \E id \in ReqIds, payment \in Payments : InMemoryDB_set_payment_status(id, payment)

SledPaidStep == \E ids \in SUBSET ReqIds : InMemoryDB_set_proof_requests_paid(ids)

NextSledPay == SledCreateStep \/ SledSetPaymentStep \/ SledPaidStep \/ Return \/ Tick

SpecSledPay == Init /\ [][NextSledPay]_vars

\* ------------------------------------------------------------ properties
\* the status table of the specification: the edges a transition may take
TableEdge(from, to) ==
    \/ from = "Created" /\ to \in {"Accepted", "Cancelled", "Rejected"}
    \/ from = "Accepted" /\ to = "Assigned"
    \/ from = "Assigned" /\ to = "AcknowledgedAssignment"
    \/ from = "AcknowledgedAssignment" /\ to \in {"ProofBeingTested", "Rejected"}
    \/ from = "ProofBeingTested" /\ to \in {"Proven", "Rejected"}

\* the columns that hold a row's status and its payload
StatusColumns(row) == <<row.status, row.rejection_message, row.operator_id, row.proof>>

\* a set_proof_request_status call on an existing record has just returned
StatusCallReturned ==
    last.op = "set_proof_request_status" /\ last.requests[last.id].present

RowBefore == last.requests[last.id]

RowAfter == mm_proof_requests[last.id]

\* C1: a set_proof_request_status call whose (current status, requested status)
\* pair is not an edge of the status table leaves the stored status, variant
\* and payload, as it was; requesting Created is such a pair from every status.
C1_NonEdgeLeavesStatus ==
    (StatusCallReturned /\ ~TableEdge(RowBefore.status, last.arg.tag))
        => /\ StatusColumns(RowAfter) = StatusColumns(RowBefore)
           /\ StatusOfRow(RowAfter) = StatusOfRow(RowBefore)

C1_Witness ==
    /\ StatusCallReturned
    /\ RowBefore.status = "Assigned"
    /\ last.arg.tag = "Rejected"
    /\ RowAfter.status = "Assigned"

\* C2: a call along an edge of the status table, made on a record whose status
\* is the edge's source, makes get_proof_request return exactly the requested
\* status with the requested payload, and last_status_update does not decrease.
C2_EdgeStoresRequested ==
    (StatusCallReturned /\ TableEdge(RowBefore.status, last.arg.tag))
        => /\ get_proof_request(last.id).status = last.arg
           /\ get_proof_request(last.id).last_status_update >= RowBefore.last_status_update

C2_Witness ==
    /\ StatusCallReturned
    /\ RowBefore.status = "Assigned"
    /\ last.arg.tag = "AcknowledgedAssignment"
    /\ last.arg.oid # RowBefore.operator_id
    /\ RowAfter.last_status_update > RowBefore.last_status_update

\* C3: once a record is Cancelled, Rejected or Proven, a call with any target
\* leaves its status, reason and proof as they were and returns Ok.
C3_TerminalAbsorbs ==
    (StatusCallReturned /\ RowBefore.status \in {"Cancelled", "Rejected", "Proven"})
        => /\ StatusColumns(RowAfter) = StatusColumns(RowBefore)
           /\ StatusOfRow(RowAfter) = StatusOfRow(RowBefore)
           /\ last.ret = "Ok"

C3_Witness ==
    /\ StatusCallReturned
    /\ RowBefore.status = "Rejected"
    /\ last.arg.tag = "Rejected"
    /\ last.arg.reason # RowBefore.rejection_message

\* C8: a refused set_proof_request_status(id, Assigned(op)) changes neither a
\* request record nor an operator record; op's last_assignment is not refreshed.
C8_RefusedAssignMutatesNothing ==
    (last.op = "set_proof_request_status" /\ last.arg.tag = "Assigned" /\ last.n = 0)
        => /\ mm_proof_requests = last.requests
           /\ mm_operators = last.operators

\* C10: after an applied Accepted -> Assigned(op) transition get_proof_request
\* reports assigned = Some(op) and op's last_assignment is the transition time.
C10_AssignSetsAssigned ==
    (StatusCallReturned /\ last.arg.tag = "Assigned" /\ last.n = 1)
        => /\ get_proof_request(last.id).assigned = last.arg.oid
           /\ mm_operators[last.arg.oid].present
                  => mm_operators[last.arg.oid].last_assignment = Database_now

\* the status calls of concurrent handlers, interleaved statement by statement
\* the payloads a handler sends: handler 1 speaks for operator 1, handler 2 for operator 2
TargetsOf(h) ==
    LET reason == IF h = 1 THEN "sorry" ELSE "late"
        p == CHOOSE q \in Proofs : q.prover = h
    IN  {Created, Accepted, Cancelled, Rejected(reason), Assigned(h),
         AcknowledgedAssignment(h), ProofBeingTested(p), Proven(p)}

IssueStep ==
    \E h \in Handlers, id \in ReqIds :
        /\ mm_proof_requests[id].present
        /\ \E target \in TargetsOf(h) : Issue(h, id, target)

ExecuteStep == \E h \in Handlers : Execute(h)

TouchStep == \E h \in Handlers : TouchOperator(h)

FinishStep == \E h \in Handlers : Finish(h)

\* the calls under study race on one record: one request is submitted
SubmitOneStep == \E id \in ReqIds : RowCount = 0 /\ Submit(id)

NextRace ==
    \/ SubmitOneStep
    \/ IssueStep \/ ExecuteStep \/ TouchStep \/ FinishStep

SpecRace == Init /\ [][NextRace]_vars

\* concurrent scheduling passes over submitted and accepted requests
SubmitStep == \E id \in ReqIds : Submit(id)

AcceptStep == \E id \in ReqIds : Accept(id)

JoinStep == \E oid \in OperatorIds : Join(oid)

PassStartStep == \E h \in Handlers : PassStart(h)

PassOperatorsStep == \E h \in Handlers : PassOperators(h)

PassPickStep == \E h \in Handlers, id \in ReqIds, oid \in OperatorIds : PassPick(h, id, oid)

PassEmptyStep == \E h \in Handlers : PassEmpty(h)

NextSched ==
    \/ SubmitStep \/ AcceptStep \/ JoinStep \/ Sleep
    \/ PassStartStep \/ PassOperatorsStep \/ PassPickStep \/ PassEmptyStep
    \/ ExecuteStep \/ TouchStep \/ FinishStep

SpecSched == Init /\ [][NextSched]_vars

\* one scheduler that keeps making passes: every step of a pass that can be
\* taken is taken, and a request and an operator that keep being offered
\* together are picked
Scheduler == CHOOSE h \in Handlers : TRUE

PickStep == \E id \in ReqIds, oid \in OperatorIds : PassPick(Scheduler, id, oid)

NextRecover ==
    \/ SubmitStep \/ AcceptStep \/ JoinStep \/ Sleep
    \/ PassStart(Scheduler) \/ PassOperators(Scheduler) \/ PickStep
    \/ PassEmpty(Scheduler)
    \/ Execute(Scheduler) \/ TouchOperator(Scheduler) \/ Finish(Scheduler)

SchedulerFairness ==
    /\ WF_vars(PassStart(Scheduler))
    /\ WF_vars(PassOperators(Scheduler))
    /\ WF_vars(PassEmpty(Scheduler))
    /\ WF_vars(Execute(Scheduler))
    /\ WF_vars(TouchOperator(Scheduler))
    /\ WF_vars(Finish(Scheduler))
    /\ \A id \in ReqIds, oid \in OperatorIds : SF_vars(PassPick(Scheduler, id, oid))

SpecRecover == Init /\ [][NextRecover]_vars /\ SchedulerFairness

\* concurrent creations, with the stored records accepted and paid for meanwhile
CreateIssueStep == \E h \in Handlers, id \in ReqIds : CreateIssue(h, id)

CreateExecuteStep == \E h \in Handlers : CreateExecute(h)

CreateFinishStep == \E h \in Handlers : CreateFinish(h)

ReserveStep == \E id \in ReqIds, a \in Amounts : Pay(id, Payment("Reserved", a))

NextCreate ==
    \/ CreateIssueStep \/ CreateExecuteStep \/ CreateFinishStep
    \/ AcceptStep \/ ReserveStep

SpecCreate == Init /\ [][NextCreate]_vars

\* operators that come, go, report and fall silent while requests move
UnregisterStep == \E oid \in OperatorIds : unregister_operator_from_p2p(oid)

HeartbeatStep == \E oid \in OperatorIds : update_last_interaction(oid)

\* the statuses a request moves through to occupy and to free an operator
MoveTargets ==
    {Accepted, Rejected("sorry")}
        \cup {Assigned(o) : o \in OperatorIds}
        \cup {AcknowledgedAssignment(o) : o \in OperatorIds}

MoveStep == \E id \in ReqIds, target \in MoveTargets : set_proof_request_status(id, target)

NextAvail ==
    \/ CreateStep \/ RegisterStep \/ UnregisterStep \/ HeartbeatStep
    \/ MoveStep \/ Return \/ Idle

SpecAvail == Init /\ [][NextAvail]_vars

\* ---- the registry of operators: they register with one resource or another,
\* leave, report and fall silent, and callers look at them
RegisterAnyStep ==
    \E oid \in OperatorIds, resource_ \in AdvertisedResources :
        register_operator_from_p2p(oid, resource_)

ObserveStep == \E oid \in OperatorIds, flag \in BOOLEAN : Observe(oid, flag)

NextOperators ==
    \/ RegisterAnyStep \/ UnregisterStep \/ HeartbeatStep \/ ObserveStep \/ Count
    \/ CreateStep \/ Return \/ Idle \/ Nap \/ Tick

SpecOperators == Init /\ [][NextOperators]_vars

\* ---- requests that wait for their operator while their payment moves
HoldTargets == {Accepted, Assigned(1)}

HoldStatusStep ==
    \E id \in ReqIds, target \in HoldTargets : set_proof_request_status(id, target)

HoldPaymentStep ==
    \E id \in ReqIds, payment \in {Payment("Reserved", 7)} : set_payment_status(id, payment)

NextHold ==
    \/ CreateStep \/ HoldStatusStep \/ HoldPaymentStep \/ PaymentReadyStep \/ PaidStep
    \/ Return \/ Tick \/ Sleep

SpecHold == Init /\ [][NextHold]_vars

\* ---- set_payment_to_ready calls that race on a record of either store,
\* while set_payment_status moves its payment
SledSubmitOneStep ==
    \E id \in ReqIds :
        /\ \A i \in ReqIds : ~sled_proof_requests[i].present
        /\ SledSubmit(id, 1)

ReadyPayStep == \E id \in ReqIds, payment \in ReadyPayments : Pay(id, payment)

SledPayStep == \E id \in ReqIds, payment \in ReadyPayments : SledPay(id, payment)

ReadyIssueStep ==
    \E h \in Handlers, store \in {"Database", "InMemoryDB"}, id \in ReqIds :
        ReadyIssue(h, store, id)

ReadyExecuteStep == \E h \in Handlers : ReadyExecute(h)

SledReadyFetchStep == \E h \in Handlers : SledReadyFetch(h)

SledReadySwapStep == \E h \in Handlers : SledReadySwap(h)

NextReady ==
    \/ SubmitOneStep \/ SledSubmitOneStep \/ ReadyPayStep \/ SledPayStep
    \/ ReadyIssueStep \/ ReadyExecuteStep \/ SledReadyFetchStep \/ SledReadySwapStep

SpecReady == Init /\ [][NextReady]_vars

\* ---- creations that race on the sled store while the stored records are
\* assigned and paid for
SledCreateGetStep == \E h \in Handlers, id \in ReqIds : SledCreateGet(h, id)

SledCreateInsertStep == \E h \in Handlers : SledCreateInsert(h)

SledAssignOneStep == \E id \in ReqIds : SledAssign(id, 1)

NextSledCreate ==
    SledCreateGetStep \/ SledCreateInsertStep \/ SledAssignOneStep \/ SledPayStep

SpecSledCreate == Init /\ [][NextSledCreate]_vars

\* ---- the two stores, given the same creations and status calls
BothCreateStep ==
    \E id \in ReqIds :
        /\ RowCount < MaxRows \/ mm_proof_requests[id].present
        /\ BothCreate(id)

BothSetStatusStep == \E id \in ReqIds, target \in Targets : BothSetStatus(id, target)

NextBoth == BothCreateStep \/ BothSetStatusStep

SpecBoth == Init /\ [][NextBoth]_vars

\* ---- the deadlines of the requests: added, replaced, removed and looked up
AddStep == \E id \in ReqIds, deadline_ \in Deadlines : add(id, deadline_)

RemoveStep == \E id \in ReqIds : remove(id)

NextDeadlines == AddStep \/ RemoveStep \/ Nearest \/ Return

SpecDeadlines == Init /\ [][NextDeadlines]_vars

\* requests that move through every status while the reassignment time passes
StatusTargets ==
    LET p == CHOOSE q \in Proofs : q.prover = 1 IN
    {Accepted, Cancelled, Rejected("sorry"), Assigned(1), AcknowledgedAssignment(1),
     ProofBeingTested(p), Proven(p)}

AnyStatusStep ==
    \E id \in ReqIds, target \in StatusTargets : set_proof_request_status(id, target)

NextNeed == CreateStep \/ AnyStatusStep \/ Return \/ Tick \/ Doze \/ Sleep

SpecNeed == Init /\ [][NextNeed]_vars

\* ---- every call that writes mm_proof_requests, one caller at a time
CreateSignedStep ==
    \E id \in ReqIds, signer \in Requesters :
        /\ RowCount < MaxRows \/ mm_proof_requests[id].present
        /\ try_create_signed_proof_request(id, signer)

FramePaymentStep ==
    \E id \in ReqIds, payment \in ReadyPayments : set_payment_status(id, payment)

NextFrame ==
    \/ CreateSignedStep \/ AnyStatusStep \/ FramePaymentStep \/ PaymentReadyStep
    \/ PaidStep \/ Return

SpecFrame == Init /\ [][NextFrame]_vars

\* requests are signed, accepted, assigned and made ready to pay
SubmitSignedStep == \E id \in ReqIds, signer \in Requesters : SubmitSigned(id, signer)

AssignStep == \E id \in ReqIds, oid \in OperatorIds : Assign(id, oid)

ReadyToPayStep == \E id \in ReqIds, a \in Amounts : Pay(id, Payment("ReadyToPay", a))

NextSettle == SubmitSignedStep \/ AcceptStep \/ AssignStep \/ JoinStep \/ ReadyToPayStep

SpecSettle == Init /\ [][NextSettle]_vars

\* requests of two requesters go through every payment operation
AnyPaymentStep == \E id \in ReqIds, payment \in Payments : Pay(id, payment)

MakeReadyStep == \E id \in ReqIds : MakeReady(id)

SettleStep == \E ids \in SUBSET ReqIds : Settle(ids)

NextAggregate == SubmitSignedStep \/ AnyPaymentStep \/ MakeReadyStep \/ SettleStep

SpecAggregate == Init /\ [][NextAggregate]_vars

\* a handler asks about every resource and every requirement
FitStep ==
    \E resource \in Resources, requirement \in Requirements :
        Fit(Scheduler, resource, requirement)

FitDoneStep == FitDone(Scheduler)

NextFulfil == FitStep \/ FitDoneStep

SpecFulfil == Init /\ [][NextFulfil]_vars

\* ---- the GPU matching of fulfills, over lists of named and given GPUs
MatchStep ==
    \E resource \in MatchResources, requirement \in MatchRequirements :
        Fit(Scheduler, resource, requirement)

NextMatch == MatchStep \/ FitDoneStep

SpecMatch == Init /\ [][NextMatch]_vars

\* ---- fulfills asked about a requirement and about one that asks for less:
\* the lists of GPUs against the lists of tiers, and every minimum
RelaxCases == (MatchResources \X MatchRequirements) \cup (Resources \X Requirements)

RelaxStep ==
    /\ hs[Scheduler].pc = "idle"
    /\ \E case \in RelaxCases :
           \E relaxation \in Relaxations(case[2]) :
               Relax(Scheduler, case[1], case[2], relaxation)

RelaxDoneStep == RelaxDone(Scheduler)

NextRelax == RelaxStep \/ RelaxDoneStep

SpecRelax == Init /\ [][NextRelax]_vars

\* ---- assignments whose time is kept while the reassignment time passes
TimedAssignStep == \E id \in ReqIds, oid \in OperatorIds : TimedAssign(Scheduler, id, oid)

TimedAcknowledgeStep == TimedAcknowledge(Scheduler)

NextTimed ==
    \/ SubmitOneStep \/ AcceptStep \/ TimedAssignStep \/ TimedAcknowledgeStep
    \/ Tick \/ Doze \/ Sleep

SpecTimed == Init /\ [][NextTimed]_vars

\* ---- the ranking of resources
RankStep == \E a, b, c \in OrderResources : Rank(Scheduler, a, b, c)

RankDoneStep == RankDone(Scheduler)

NextOrder == RankStep \/ RankDoneStep

SpecOrder == Init /\ [][NextOrder]_vars

\* the same on the sled store
SledSubmitStep == \E id \in ReqIds, signer \in Requesters : SledSubmit(id, signer)

SledAssignStep == \E id \in ReqIds, oid \in OperatorIds : SledAssign(id, oid)

SledReadyToPayStep == \E id \in ReqIds, a \in Amounts : SledReadyToPay(id, a)

NextSledSettle == SledSubmitStep \/ SledAssignStep \/ SledReadyToPayStep

SpecSledSettle == Init /\ [][NextSledSettle]_vars

\* ------------------------------------------------------------- payments
PaymentReadyReturned == last.op = "set_payment_to_ready"

\* C6: set_payment_to_ready on a stored record returns Ok if and only if the
\* record's payment was Reserved(a), and then the payment is ReadyToPay(a)
\* with the same a; from every other payment it returns an error and the
\* payment and the amount are as they were.
C6_ReadyIffReserved ==
    (PaymentReadyReturned /\ RowBefore.present)
        => /\ (last.ret = "Ok") <=> (PaymentOfRow(RowBefore).tag = "Reserved")
           /\ last.ret = "Ok" =>
                 PaymentOfRow(RowAfter) =
                     Payment("ReadyToPay", PaymentOfRow(RowBefore).amount)
           /\ last.ret # "Ok" =>
                 /\ RowAfter.payment = RowBefore.payment
                 /\ RowAfter.amount = RowBefore.amount

\* a Reserved(7) record has been made ReadyToPay(7)
C6_Witness ==
    /\ PaymentReadyReturned
    /\ RowBefore.present
    /\ PaymentOfRow(RowBefore) = Payment("Reserved", 7)
    /\ last.ret = "Ok"
    /\ PaymentOfRow(RowAfter) = Payment("ReadyToPay", 7)

\* the batch call of either store has returned
PaidReturned ==
    last.op \in {"set_proof_requests_paid", "InMemoryDB.set_proof_requests_paid"}

\* what a store held for an id, as presence and payment, before and after
PaidBefore(i) ==
    IF last.op = "set_proof_requests_paid"
    THEN [present |-> last.requests[i].present, payment |-> PaymentOfRow(last.requests[i])]
    ELSE [present |-> last.sled[i].present, payment |-> last.sled[i].payment]

PaidAfter(i) ==
    IF last.op = "set_proof_requests_paid"
    THEN [present |-> mm_proof_requests[i].present,
          payment |-> PaymentOfRow(mm_proof_requests[i])]
    ELSE [present |-> sled_proof_requests[i].present,
          payment |-> sled_proof_requests[i].payment]

\* everything but the payment of every record is as it was
PaidKeepsTheRest ==
    IF last.op = "set_proof_requests_paid"
    THEN \A i \in ReqIds :
            [mm_proof_requests[i] EXCEPT !.payment = "Paid"] =
                [last.requests[i] EXCEPT !.payment = "Paid"]
    ELSE \A i \in ReqIds :
            [sled_proof_requests[i] EXCEPT !.payment = Nothing] =
                [last.sled[i] EXCEPT !.payment = Nothing]

\* C7: set_proof_requests_paid(ids) turns exactly the records of ids whose
\* payment is ReadyToPay(a) into Paid(a); records of ids in another payment
\* state, records outside ids and ids without a record stay as they were,
\* and the call returns Ok in all these cases.
C7_PaidFlipsExactlyReady ==
    PaidReturned
        => /\ last.ret = "Ok"
           /\ PaidKeepsTheRest
           /\ \A i \in ReqIds :
                 IF i \in last.arg /\ PaidBefore(i).present
                                  /\ PaidBefore(i).payment.tag = "ReadyToPay"
                 THEN PaidAfter(i) =
                          [present |-> TRUE,
                           payment |-> Payment("Paid", PaidBefore(i).payment.amount)]
                 ELSE PaidAfter(i) = PaidBefore(i)

\* the Postgres half of C7 taken alone
DatabasePaidFlipsExactlyReady ==
    last.op = "set_proof_requests_paid" => C7_PaidFlipsExactlyReady

\* ------------------------------------------------------------------ races
\* two calls on one record that started from the same stored status and were
\* in flight together; first ran its statement before second
RacePair(first, second) ==
    /\ first # second
    /\ hs[first].pc = "done" /\ hs[second].pc = "done"
    /\ hs[first].id = hs[second].id
    /\ hs[first].seen = hs[second].seen
    /\ second \in hs[first].overlap

\* the status a racing pair leaves: the second's if it applied, else the first's
StatusAfterRace(first, second) ==
    StatusOfRow(mm_proof_requests[hs[first].id])

\* the first call's target status is a source of the second call's target
Chained(first, second) == hs[first].target.tag \in SourceFilter(hs[second].target)

\* both calls ask for an edge that leaves the status they started from
BothFromSource(first, second) ==
    /\ hs[first].seen \in SourceFilter(hs[first].target)
    /\ hs[second].seen \in SourceFilter(hs[second].target)

\* C4 as stated: of two calls racing from the same source status at most one
\* changes the record, and the stored status and payload are the winner's.
C4_RaceAtMostOneWins ==
    \A first \in Handlers, second \in Handlers :
        (RacePair(first, second) /\ BothFromSource(first, second))
            => /\ hs[first].n + hs[second].n <= 1
               /\ hs[first].n = 1 => StatusAfterRace(first, second) = hs[first].target
               /\ hs[second].n = 1 => StatusAfterRace(first, second) = hs[second].target

\* C4 (amended): each of two racing calls applies exactly when the status
\* stored at the time of its UPDATE is a source of its target; both apply only
\* when the first's target is a source of the second's; the stored status and
\* payload are those of the last call that applied, never a mix.
C4_RaceLastApplierWins ==
    \A first \in Handlers, second \in Handlers :
        RacePair(first, second)
            => /\ (hs[first].n = 1) <=> (hs[first].seen \in SourceFilter(hs[first].target))
               /\ (hs[second].n = 1) <=>
                     ((IF hs[first].n = 1 THEN hs[first].target.tag ELSE hs[second].seen)
                          \in SourceFilter(hs[second].target))
               /\ (hs[first].n = 1 /\ hs[second].n = 1) => Chained(first, second)
               /\ hs[second].n = 1 => StatusAfterRace(first, second) = hs[second].target
               /\ (hs[first].n = 1 /\ hs[second].n = 0) =>
                     StatusAfterRace(first, second) = hs[first].target
               /\ (hs[first].n = 0 /\ hs[second].n = 0) =>
                     StatusAfterRace(first, second).tag = hs[first].seen

\* two handlers raced to assign an Accepted request and exactly one won
C4_Witness ==
    \E first \in Handlers, second \in Handlers :
        /\ RacePair(first, second)
        /\ hs[first].seen = "Accepted"
        /\ hs[first].target.tag = "Assigned" /\ hs[second].target.tag = "Assigned"
        /\ hs[first].n = 1 /\ hs[second].n = 0
        /\ StatusAfterRace(first, second) = hs[first].target

\* two handlers raced from AcknowledgedAssignment and both changed the record
C4_BothApplied ==
    \E first \in Handlers, second \in Handlers :
        /\ RacePair(first, second)
        /\ hs[first].seen = "AcknowledgedAssignment"
        /\ hs[first].n = 1 /\ hs[second].n = 1

\* ------------------------------------------------------------- scheduling
\* the request occupies the operator: it is Assigned or AcknowledgedAssignment
\* with that operator
Occupies(id, oid) ==
    /\ mm_proof_requests[id].present
    /\ mm_proof_requests[id].status \in {"Assigned", "AcknowledgedAssignment"}
    /\ mm_proof_requests[id].operator_id = oid

\* C5: with concurrent scheduling passes, no operator is the operator of two
\* different requests whose status is Assigned or AcknowledgedAssignment.
C5_NoOvercommitment ==
    \A oid \in OperatorIds, i \in ReqIds, j \in ReqIds :
        (Occupies(i, oid) /\ Occupies(j, oid)) => i = j

\* the request has been Assigned to the operator for the reassignment time
StaleAssigned(id, oid) ==
    /\ Occupies(id, oid)
    /\ mm_proof_requests[id].status = "Assigned"
    /\ NeedsAssignment(mm_proof_requests[id])

\* another operator than oid is online and unoccupied
OtherAvailable(oid) == \E op2 \in available_operators : op2 # oid

\* C9: under repeated scheduling passes a request does not stay Assigned to an
\* operator that never acknowledges while another operator is available: the
\* request eventually stops being assigned to that operator.
C9_StaleRecovered ==
    \A id \in ReqIds, oid \in OperatorIds :
        ~<>[](StaleAssigned(id, oid) /\ OtherAvailable(oid))

\* --------------------------------------------------- acknowledgement, result
\* C11: a record that has just become AcknowledgedAssignment(op) was
\* Assigned(op) with the same op, and a request for AcknowledgedAssignment(op2)
\* on a record that is Assigned(op), op2 # op, does not change the record.
C11_AckKeepsOperator ==
    /\ (StatusCallReturned /\ last.n = 1 /\ RowAfter.status = "AcknowledgedAssignment")
           => StatusOfRow(RowBefore) = Assigned(StatusOfRow(RowAfter).oid)
    /\ (StatusCallReturned /\ last.arg.tag = "AcknowledgedAssignment"
           /\ RowBefore.status = "Assigned" /\ last.arg.oid # RowBefore.operator_id)
           => RowAfter = RowBefore

\* C12: the value set_proof_request_status returns for a refused transition
\* differs from the value it returns for an applied one.
C12_ResultTellsApplied ==
    (StatusCallReturned /\ last.n = 0) => last.ret # status_result(1)

\* --------------------------------------------------------------- creation
\* the INSERT of handler h runs in this step
Inserts(h) == hs[h].pc = "insert" /\ hs'[h].pc = "inserted"

\* two creations of one id that was new to both and that were in flight together
CreatePair(first, second) ==
    /\ first # second
    /\ hs[first].pc = "inserted" /\ hs[second].pc = "inserted"
    /\ hs[first].id = hs[second].id
    /\ hs[first].seen = "none" /\ hs[second].seen = "none"
    /\ second \in hs[first].overlap

\* C13: try_create_proof_request on a new id stores a record with status
\* Created, payment Nothing and no operator and succeeds; on an id that exists
\* it returns an error and leaves every record as it was; of two concurrent
\* calls with the same new id exactly one succeeds.
C13_CreateOnce ==
    /\ [][\A h \in Handlers :
            Inserts(h) =>
                IF mm_proof_requests[hs[h].id].present
                THEN /\ create_result(hs'[h].n) = "Err"
                     /\ mm_proof_requests' = mm_proof_requests
                ELSE /\ create_result(hs'[h].n) = "Ok"
                     /\ get_proof_request(hs[h].id)' =
                            [found |-> TRUE, status |-> Created, assigned |-> NullAddr,
                             last_status_update |-> Database_now, payment |-> Nothing]
                     /\ \A i \in ReqIds \ {hs[h].id} :
                            mm_proof_requests'[i] = mm_proof_requests[i]]_vars
    /\ [](\A first \in Handlers, second \in Handlers :
            CreatePair(first, second) => hs[first].n + hs[second].n = 1)

\* two handlers created the same new id together: one succeeded, one failed
C13_Witness ==
    \E first \in Handlers, second \in Handlers :
        /\ CreatePair(first, second)
        /\ create_result(hs[first].n) = "Ok"
        /\ create_result(hs[second].n) = "Err"
        /\ mm_proof_requests[hs[first].id].present

\* ----------------------------------------------------- available operators
\* the operator is the operator of a request that is Assigned or
\* AcknowledgedAssignment, as get_proof_request reports it
Occupied(oid) ==
    \E i \in ReqIds :
        /\ get_proof_request(i).found
        /\ get_proof_request(i).status.tag \in {"Assigned", "AcknowledgedAssignment"}
        /\ get_proof_request(i).status.oid = oid

\* a request has just left Assigned and AcknowledgedAssignment and freed oid
Released(oid) ==
    /\ StatusCallReturned
    /\ RowBefore.status \in {"Assigned", "AcknowledgedAssignment"}
    /\ RowBefore.operator_id = oid
    /\ RowAfter.status \notin {"Assigned", "AcknowledgedAssignment"}
    /\ ~Occupied(oid)

\* C14: available_operators() is exactly the set of the registered operators
\* that are online and are not the operator of a request in Assigned or
\* AcknowledgedAssignment; an operator whose request has left both statuses
\* and that is still online is returned again.
C14_AvailableExactly ==
    /\ available_operators =
           {o \in OperatorIds : /\ mm_operators[o].present
                                /\ is_online(mm_operators[o])
                                /\ ~Occupied(o)}
    /\ \A o \in OperatorIds :
           (Released(o) /\ mm_operators[o].present /\ is_online(mm_operators[o]))
               => o \in available_operators

\* an operator was excluded for its acknowledged request, the request was
\* rejected, and the operator is returned again while another
\* registered operator has fallen silent and is left out
C14_Witness ==
    \E o \in OperatorIds, silent \in OperatorIds :
        /\ Released(o)
        /\ RowBefore.status = "AcknowledgedAssignment"
        /\ o \in available_operators
        /\ mm_operators[silent].present
        /\ ~is_online(mm_operators[silent])
        /\ silent \notin available_operators

\* ------------------------------------------------- requests needing assignment
\* the time since the record's status was last updated, as get_proof_request
\* reports it, is the reassignment time or more
UpdatedLongAgo(id) ==
    clock - get_proof_request(id).last_status_update
        >= REASSIGNMENT_SECONDS * TicksPerSecond

\* C15: proof_requests_need_assignment() returns exactly the Accepted requests
\* and the Assigned requests whose last_status_update is at least 10 seconds
\* before now; a request in another status, or Assigned for less than 10
\* seconds, is not returned.
C15_NeedExactly ==
    proof_requests_need_assignment =
        {i \in ReqIds :
            /\ get_proof_request(i).found
            /\ \/ get_proof_request(i).status.tag = "Accepted"
               \/ /\ get_proof_request(i).status.tag = "Assigned"
                  /\ UpdatedLongAgo(i)}

\* an Assigned request whose last_status_update is exactly 10 seconds old is returned
C15_Witness ==
    \E i \in ReqIds :
        /\ get_proof_request(i).found
        /\ get_proof_request(i).status.tag = "Assigned"
        /\ clock - get_proof_request(i).last_status_update
               = REASSIGNMENT_SECONDS * TicksPerSecond
        /\ i \in proof_requests_need_assignment

\* an Assigned request one tick short of 10 seconds is not returned
C15_NotYet ==
    \E i \in ReqIds :
        /\ get_proof_request(i).status.tag = "Assigned"
        /\ clock - get_proof_request(i).last_status_update
               = REASSIGNMENT_SECONDS * TicksPerSecond - 1
        /\ i \notin proof_requests_need_assignment

\* ---------------------------------------------------------- aggregation
\* the elements of a sequence
Range(seq) == {seq[k] : k \in DOMAIN seq}

\* the requests of a listing that belong to a pair (operator, requester)
ListedOfPair(ids, pair) ==
    {i \in ids : /\ mm_proof_requests[i].assigned = pair[1]
                 /\ mm_proof_requests[i].requester = pair[2]}

\* the totals of a result are the sums of the amounts of the requests it lists
TotalsExact(result) ==
    \A pair \in OperatorIds \X Requesters :
        LET listed == ListedOfPair(Range(result.ids), pair)
        IN  result.payments[pair] =
                IF listed = {} THEN NullNumeric ELSE SumAmounts(mm_proof_requests, listed)

\* the request is in status Assigned(oid), which only an applied transition
\* to Assigned(oid) stores, and its payment is ReadyToPay
AssignedAndReady(id, oid) ==
    /\ mm_proof_requests[id].present
    /\ StatusOfRow(mm_proof_requests[id]) = Assigned(oid)
    /\ mm_proof_requests[id].payment = "ReadyToPay"

\* C16: every request assigned to op by an applied Accepted -> Assigned(op)
\* transition whose payment is ReadyToPay is in the id list of
\* get_ready_to_pay_proof_requests_for_many, each pair's amount is the sum of
\* the amounts of the pair's listed requests, and
\* get_ready_to_pay_proof_requests(op) lists op's requests with the same totals.
C16_SettlementComplete ==
    /\ \A result \in get_ready_to_pay_proof_requests_for_many :
          /\ result.ret = "Ok"
          /\ \A id \in ReqIds, oid \in OperatorIds :
                AssignedAndReady(id, oid) => id \in Range(result.ids)
          /\ TotalsExact(result)
    /\ \A oid \in OperatorIds : \A result \in get_ready_to_pay_proof_requests(oid) :
          /\ result.ret = "Ok"
          /\ \A id \in ReqIds : AssignedAndReady(id, oid) => id \in Range(result.ids)
          /\ TotalsExact(result)

\* the totals InMemoryDB's query returns are the sums of the amounts of the
\* requests it lists, pair by pair
InMemoryDB_TotalsExact ==
    LET result == InMemoryDB_get_ready_to_pay_proof_requests_for_many
    IN  \A pair \in OperatorIds \X Requesters :
            LET listed == {i \in Range(result.ids) :
                              /\ sled_proof_requests[i].assigned = pair[1]
                              /\ sled_proof_requests[i].requester = pair[2]}
                amounts == [i \in ReqIds |->
                               [amount |-> sled_proof_requests[i].payment.amount]]
            IN  result.payments[pair] =
                    IF listed = {} THEN NullNumeric ELSE SumAmounts(amounts, listed)

\* the requester's records whose payment is one of the tags
RecordsOwing(addr, tags) ==
    {i \in ReqIds : /\ get_proof_request(i).found
                    /\ mm_proof_requests[i].public_key = addr
                    /\ get_proof_request(i).payment.tag \in tags}

\* the sum of the payments' amounts over a set of records
RECURSIVE AmountOwed(_)
AmountOwed(ids) ==
    IF ids = {} THEN 0
    ELSE LET i == CHOOSE j \in ids : TRUE
         IN  get_proof_request(i).payment.amount + AmountOwed(ids \ {i})

\* the total of a requester's Reserved records
ReservedTotal(addr) == AmountOwed(RecordsOwing(addr, {"Reserved"}))

\* the total of a requester's Reserved and ReadyToPay records
WithheldTotal(addr) == AmountOwed(RecordsOwing(addr, {"Reserved", "ReadyToPay"}))

\* C17: for every requester get_reserved_for_requester returns the sum of the
\* amounts of the requester's records that are Reserved now, and
\* non_refundable_amount the sum over those that are Reserved or ReadyToPay
\* now, whenever the sum is a 256-bit number; other requesters' records and
\* records in Nothing, ToReserve, Paid or Refund add nothing.
C17_SumsPerRequester ==
    \A addr \in Requesters :
        /\ ReservedTotal(addr) <= U256_MAX
              => get_reserved_for_requester(addr) =
                     [ret |-> "Ok", value |-> ReservedTotal(addr)]
        /\ WithheldTotal(addr) <= U256_MAX
              => non_refundable_amount(addr) =
                     [ret |-> "Ok", value |-> WithheldTotal(addr)]

\* one requester has a Reserved(7) and a ReadyToPay(7) record: 7 reserved and
\* 14 withheld, and nothing for the other requester
C17_Witness ==
    \E addr \in Requesters, other \in Requesters :
        /\ other # addr
        /\ \E i, j \in ReqIds :
              /\ mm_proof_requests[i].public_key = addr
              /\ mm_proof_requests[j].public_key = addr
              /\ get_proof_request(i).payment = Payment("Reserved", 7)
              /\ get_proof_request(j).payment = Payment("ReadyToPay", 7)
        /\ get_reserved_for_requester(addr) = [ret |-> "Ok", value |-> 7]
        /\ non_refundable_amount(addr) = [ret |-> "Ok", value |-> 14]
        /\ non_refundable_amount(other) = [ret |-> "Ok", value |-> 0]

\* two requesters; one record is Paid(9) and adds nothing to its requester's
\* totals, the other requester's record is Reserved(9)
C17_OthersAddNothing ==
    \E i, j \in ReqIds :
        /\ mm_proof_requests[i].public_key = 1
        /\ mm_proof_requests[j].public_key = 2
        /\ get_proof_request(i).payment = Payment("Paid", 9)
        /\ get_proof_request(j).payment = Payment("Reserved", 9)
        /\ get_reserved_for_requester(1) = [ret |-> "Ok", value |-> 0]
        /\ non_refundable_amount(1) = [ret |-> "Ok", value |-> 0]
        /\ get_reserved_for_requester(2) = [ret |-> "Ok", value |-> 9]

\* C18: when the total of an aggregation query is not a 256-bit number the
\* call does not return Ok: no cut, saturated or partial total is a result.
C18_OverflowIsError ==
    \A addr \in Requesters :
        /\ ReservedTotal(addr) > U256_MAX => get_reserved_for_requester(addr).ret # "Ok"
        /\ WithheldTotal(addr) > U256_MAX => non_refundable_amount(addr).ret # "Ok"
        /\ \A result \in get_ready_to_pay_proof_requests_for_many :
              (\E pair \in OperatorIds \X Requesters :
                  SumAmounts(mm_proof_requests,
                             ListedOfPair(ReadyRows(mm_proof_requests), pair)) > U256_MAX)
                  => result.ret # "Ok"

\* ------------------------------------------------------------- returns
\* what the record of the last call was read back as before the call
ParamsBefore == [payment |-> PaymentOfRow(RowBefore)]

\* C19: not_elighable_for_returns is Some(amount) exactly for Reserved(amount)
\* and ReadyToPay(amount) and None for Nothing, ToReserve, Paid and Refund,
\* for every payment value and for every stored record as it is read back;
\* so along ToReserve(a), Reserved(a), ReadyToPay(a), Paid(a) it is Some(a)
\* in the two middle states only.
C19_WithheldExactly ==
    /\ \A payment \in Payments :
          not_elighable_for_returns([payment |-> payment]) =
              IF payment.tag \in {"Reserved", "ReadyToPay"}
              THEN Some(payment.amount) ELSE None
    /\ \A id \in ReqIds :
          LET params == get_proof_request(id) IN
          params.found =>
              /\ params.payment.tag \in {"Reserved", "ReadyToPay"}
                    => not_elighable_for_returns(params) = Some(mm_proof_requests[id].amount)
              /\ params.payment.tag \in {"Nothing", "ToReserve", "Paid", "Refund"}
                    => not_elighable_for_returns(params) = None

\* a ReadyToPay(7) record, for which Some(7) was reported, has been paid and
\* None is reported now
C19_Witness ==
    /\ last.op = "set_proof_requests_paid"
    /\ \E id \in last.arg :
          /\ PaymentOfRow(last.requests[id]) = Payment("ReadyToPay", 7)
          /\ not_elighable_for_returns([payment |-> PaymentOfRow(last.requests[id])]) = Some(7)
          /\ get_proof_request(id).payment = Payment("Paid", 7)
          /\ not_elighable_for_returns(get_proof_request(id)) = None

\* a ToReserve(7) record, for which None was reported, has been reserved and
\* Some(7) is reported now
C19_Reserved ==
    /\ last.op = "set_payment_status"
    /\ ParamsBefore.payment = Payment("ToReserve", 7)
    /\ not_elighable_for_returns(ParamsBefore) = None
    /\ last.arg = Payment("Reserved", 7)
    /\ not_elighable_for_returns(get_proof_request(last.id)) = Some(7)

\* a Reserved(7) record has been made ready to pay and Some(7) is reported
\* before and after
C19_Ready ==
    /\ last.op = "set_payment_to_ready"
    /\ not_elighable_for_returns(ParamsBefore) = Some(7)
    /\ get_proof_request(last.id).payment = Payment("ReadyToPay", 7)
    /\ not_elighable_for_returns(get_proof_request(last.id)) = Some(7)

\* ------------------------------------------------------------ resources
\* a handler holds the answer of fulfills for a resource and a requirement
Fitted(h) == hs[h].pc = "fit"

\* the resource and the requirement the handler asked about
FittedResource(h) == CHOOSE resource \in hs[h].ops : TRUE

FittedRequirement(h) == CHOOSE requirement \in hs[h].reqs : TRUE

\* a minimum is unset, or the size is the minimum or more
Meets(size, minimum) == minimum.some => size >= minimum.value

\* C20: fulfills is false whenever RAM < min_ram, SSD < min_ssd, CPU cores <
\* min_cpu_cores or some advertised GPU has VRAM < min_vram; for a requirement
\* without GPU tiers it is true exactly when every set minimum is met or
\* exceeded by RAM, SSD, the cores and every GPU; an unset minimum is no limit.
C20_FulfillsMinimums ==
    \A h \in Handlers : Fitted(h) =>
        LET self == FittedResource(h)
            req == FittedRequirement(h)
            answer == hs[h].n = 1
        IN  /\ (req.min_ram.some /\ self.ram.size < req.min_ram.value) => ~answer
            /\ (req.min_ssd.some /\ self.ssd.size < req.min_ssd.value) => ~answer
            /\ (req.min_cpu_cores.some /\ CPU_specs(self.cpu).cores < req.min_cpu_cores.value) => ~answer
            /\ (req.min_vram.some
                   /\ \E i \in DOMAIN self.gpus :
                          GPU_specs(self.gpus[i]).memory.size < req.min_vram.value)
                  => ~answer
            /\ req.min_gpu = <<>>
                  => (answer <=> /\ Meets(self.ram.size, req.min_ram)
                                 /\ Meets(self.ssd.size, req.min_ssd)
                                 /\ Meets(CPU_specs(self.cpu).cores, req.min_cpu_cores)
                                 /\ \A i \in DOMAIN self.gpus :
                                       Meets(GPU_specs(self.gpus[i]).memory.size,
                                             req.min_vram))

\* RAM, SSD and cores exactly at the minimums, no GPU tier, no VRAM minimum:
\* the resource fulfills
C20_Witness ==
    \E h \in Handlers :
        /\ Fitted(h)
        /\ FittedRequirement(h) =
               [min_vram |-> None, min_ram |-> Some(2), min_ssd |-> Some(2),
                min_gpu |-> <<>>, min_cpu_cores |-> Some(2)]
        /\ FittedResource(h).ram.size = 2 /\ FittedResource(h).ssd.size = 2
        /\ CPU_specs(FittedResource(h).cpu).cores = 2
        /\ hs[h].n = 1

\* one unit below the RAM minimum, everything else at its minimum: not fulfilled
C20_OneBelow ==
    \E h \in Handlers :
        /\ Fitted(h)
        /\ FittedRequirement(h) =
               [min_vram |-> None, min_ram |-> Some(2), min_ssd |-> Some(2),
                min_gpu |-> <<>>, min_cpu_cores |-> Some(2)]
        /\ FittedResource(h).ram.size = 1 /\ FittedResource(h).ssd.size = 2
        /\ CPU_specs(FittedResource(h).cpu).cores = 2
        /\ hs[h].n = 0

\* no GPU tier is required and one of two GPUs is below min_vram: not fulfilled
C20_SpareGpuTooSmall ==
    \E h \in Handlers :
        /\ Fitted(h)
        /\ FittedRequirement(h) =
               [min_vram |-> Some(2), min_ram |-> None, min_ssd |-> None,
                min_gpu |-> <<>>, min_cpu_cores |-> None]
        /\ FittedResource(h).gpus = <<PlainGpu(2), PlainGpu(1)>>
        /\ hs[h].n = 0

\* nothing is required: the least resource fulfills
C20_Unset ==
    \E h \in Handlers :
        /\ Fitted(h)
        /\ FittedRequirement(h) = NoRequirement
        /\ FittedResource(h) = SmallResource
        /\ hs[h].n = 1

\* ---- C21
\* the minimum checks of a requirement, all passed by the resource
PassesMinimums(self, req) ==
    /\ Meets(self.ram.size, req.min_ram)
    /\ Meets(self.ssd.size, req.min_ssd)
    /\ Meets(CPU_specs(self.cpu).cores, req.min_cpu_cores)
    /\ \A i \in DOMAIN self.gpus : Meets(GPU_specs(self.gpus[i]).memory.size, req.min_vram)

\* the GPUs that tier k may claim when the tiers before it claimed by claims
Claimable(claims, tiers, gpus, k) ==
    {i \in DOMAIN gpus : /\ GPU_fulfills(gpus[i], tiers[k])
                         /\ \A j \in 1..(k - 1) : claims[j] # i}

\* first fit: the claim of every tier, 0 for a tier that claims nothing
FirstFit(tiers, gpus) ==
    CHOOSE claims \in [DOMAIN tiers -> DOMAIN gpus \cup {0}] :
        \A k \in DOMAIN tiers :
            LET free == Claimable(claims, tiers, gpus, k)
            IN  IF free = {} THEN claims[k] = 0
                ELSE claims[k] \in free /\ \A i \in free : claims[k] <= i

\* C21: for every resource and requirement that pass the minimum checks,
\* fulfills is true exactly when first fit, each tier in requirement order
\* claiming the first GPU that no tier claimed and that qualifies for it, has
\* every tier claim a GPU; no GPU is claimed twice.
C21_FirstFit ==
    \A h \in Handlers :
        (Fitted(h) /\ PassesMinimums(FittedResource(h), FittedRequirement(h))) =>
            LET tiers == FittedRequirement(h).min_gpu
                claims == FirstFit(tiers, FittedResource(h).gpus)
            IN  /\ \A j, k \in DOMAIN tiers :
                       (j # k /\ claims[j] # 0) => claims[j] # claims[k]
                /\ hs[h].n = 1 <=> \A k \in DOMAIN tiers : claims[k] # 0

\* the same tier twice and one of the two GPUs qualifies for it: not fulfilled
C21_Witness ==
    \E h \in Handlers :
        /\ Fitted(h)
        /\ PassesMinimums(FittedResource(h), FittedRequirement(h))
        /\ FittedRequirement(h).min_gpu = <<"GeForceRtx3060_12GB", "GeForceRtx3060_12GB">>
        /\ FittedResource(h).gpus =
               <<GPU_Model("GeForceRtx3060_12GB"), GPU_Model("GeForceRtx3060_8GB")>>
        /\ hs[h].n = 0

\* one tier and two GPUs that qualify: fulfilled, the second GPU unclaimed
C21_OneOfTwo ==
    \E h \in Handlers :
        /\ Fitted(h)
        /\ FittedRequirement(h).min_gpu = <<"GeForceRtx3060_8GB">>
        /\ FittedResource(h).gpus =
               <<GPU_Model("GeForceRtx3060_12GB"), GPU_Model("H100")>>
        /\ FirstFit(FittedRequirement(h).min_gpu, FittedResource(h).gpus) = <<1>>
        /\ hs[h].n = 1

\* ---- C22
\* one named GPU matched against one tier, the minimum checks passed
OneNamedGpu(h) ==
    /\ Fitted(h)
    /\ PassesMinimums(FittedResource(h), FittedRequirement(h))
    /\ Len(FittedRequirement(h).min_gpu) = 1
    /\ Len(FittedResource(h).gpus) = 1
    /\ FittedResource(h).gpus[1].kind = "Model"

\* C22: during the GPU matching a GPU qualifies for a required tier exactly
\* when its rank in the order of the GPU models is at least the rank of the
\* tier; a model of the same VRAM at a lower rank does not satisfy the tier.
C22_QualifiesByRank ==
    \A h \in Handlers : OneNamedGpu(h) =>
        (hs[h].n = 1 <=>
            GPUModel_rank(FittedResource(h).gpus[1].model)
                >= GPUModel_rank(FittedRequirement(h).min_gpu[1]))

\* a GPU of a lower rank and the same VRAM is taken for the higher tier
C22_LowerRankTaken ==
    \E h \in Handlers :
        /\ OneNamedGpu(h)
        /\ FittedResource(h).gpus[1] = GPU_Model("GeForceRtx3060_8GB")
        /\ FittedRequirement(h).min_gpu = <<"H100">>
        /\ hs[h].n = 1

\* a GPU of a higher rank and less VRAM is refused for the lower tier
C22_HigherRankRefused ==
    \E h \in Handlers :
        /\ OneNamedGpu(h)
        /\ FittedResource(h).gpus[1] = GPU_Model("H100")
        /\ FittedRequirement(h).min_gpu = <<"GeForceRtx3060_12GB">>
        /\ hs[h].n = 0

\* ---- C23
\* a handler holds a ranking
Ranked(h) == hs[h].pc = "rank"

RankedResources(h) == CHOOSE triple \in hs[h].ops : TRUE

RankedOrderings(h) == CHOOSE triple \in hs[h].reqs : TRUE

\* C23: the comparison on Resource is a total order over all resources, named
\* and given GPUs mixed: any two are comparable, and a <= b and b <= c imply
\* a <= c (the same for the GPU comparison under it); a resource without a
\* GPU is below every resource with one.
C23_TotalOrder ==
    \A h \in Handlers : Ranked(h) =>
        LET a == RankedResources(h)[1]
            b == RankedResources(h)[2]
            ab == RankedOrderings(h)[1]
            bc == RankedOrderings(h)[2]
            ac == RankedOrderings(h)[3]
        IN  /\ {ab, bc, ac} \subseteq Orderings
            /\ (ab # "Greater" /\ bc # "Greater") => ac # "Greater"
            /\ (a.gpus = <<>> /\ b.gpus # <<>>) => ab = "Less"

\* three resources that differ in their one GPU: the 12 GB model is below
\* H100 by position, H100 equals its own specs given as specs, and the 12 GB
\* model is above those specs by memory
C23_GpuCycle ==
    \E h \in Handlers :
        /\ Ranked(h)
        /\ RankedResources(h)[1].gpus = <<GPU_Model("GeForceRtx3060_12GB")>>
        /\ RankedResources(h)[2].gpus = <<GPU_Model("H100")>>
        /\ RankedResources(h)[3].gpus = <<GPU_Specs(GPUModel_specs("H100"))>>
        /\ RankedOrderings(h) = <<"Less", "Equal", "Greater">>

\* three resources without GPUs and of one RAM that differ in the CPU: EPYC
\* equals the specs of every model, which equal IntelI3, and EPYC is above
\* IntelI3 by position
C23_CpuCycle ==
    \E h \in Handlers :
        /\ Ranked(h)
        /\ \A i \in 1..3 : RankedResources(h)[i].gpus = <<>>
        /\ \A i \in 1..3 : RankedResources(h)[i].ram = Memory(1, 0)
        /\ RankedResources(h)[1].cpu = CPU_Model(9)
        /\ RankedResources(h)[2].cpu = CPU_Specs(2, 2)
        /\ RankedResources(h)[3].cpu = CPU_Model(0)
        /\ RankedOrderings(h) = <<"Equal", "Equal", "Greater">>

\* the ranking is by the best GPU, then the RAM, then the CPU, and every two
\* resources are comparable
C23_RanksByGpuRamCpu ==
    \A h \in Handlers : Ranked(h) =>
        LET a == RankedResources(h)[1]
            b == RankedResources(h)[2]
            ab == RankedOrderings(h)[1]
        IN  /\ ab \in Orderings
            /\ (a.gpus = <<>> /\ b.gpus # <<>>) => ab = "Less"
            /\ (a.gpus = <<>> /\ b.gpus = <<>> /\ a.ram.size < b.ram.size) => ab = "Less"
            /\ (a.gpus = <<>> /\ b.gpus = <<>> /\ a.ram = b.ram) => ab = CPU_cmp(a.cpu, b.cpu)

\* ---- C24
\* a caller holds the answers of is_online and is_temporary_offline
Observed == last.op = "is_online"

\* the time since the last interaction of the observed operator
Silence == clock - last.arg.operator.last_interaction

C24_JustOnline ==
    /\ Observed
    /\ last.arg.operator.online
    /\ Silence = OfflineTicks - 1
    /\ last.arg.is_online /\ ~last.arg.is_temporary_offline

\* the flag false: neither, a moment or a long time after the last interaction
C24_FlagFalse ==
    /\ Observed
    /\ ~last.arg.operator.online
    /\ Silence >= OfflineTicks
    /\ ~last.arg.is_online /\ ~last.arg.is_temporary_offline

\* ---- C25
Registered == last.op = "register_operator_from_p2p"

\* C25: registering an operator always leaves it online, its last_interaction
\* refreshed and its resource equal to the resource given in the call, also
\* when the operator id is stored already.
C25_RegisterResets ==
    Registered =>
        LET operator == get_operator(last.id)
        IN  /\ operator.some
            /\ operator.value.online
            /\ operator.value.last_interaction = Database_now
            /\ operator.value.resource = last.arg

\* an operator registers again with another resource: the old one is kept
C25_OldResourceKept ==
    /\ Registered
    /\ last.operators[last.id].present
    /\ last.arg = LargeResource
    /\ get_operator(last.id).value.resource = SmallResource

\* an operator that went silent registers again: it is still not online
C25_StillSilent ==
    /\ Registered
    /\ last.operators[last.id].present
    /\ get_operator(last.id).value.last_interaction # Database_now
    /\ ~is_online(get_operator(last.id).value)

\* an operator that is not stored registers: online, fresh, the resource given
C25_FirstRegistration ==
    /\ Registered
    /\ ~last.operators[last.id].present
    /\ last.arg = LargeResource
    /\ get_operator(last.id) =
           Some([operator_id |-> last.id, resource |-> LargeResource, reputation |-> 0,
                 last_interaction |-> Database_now, online |-> TRUE,
                 last_assignment |-> Database_now])

\* ---- C26
Unregistered == last.op = "unregister_operator_from_p2p" /\ last.operators[last.id].present

\* C26: unregistering keeps the record: get_operator returns it with online
\* false and reputation and last_assignment unchanged, and the operator is
\* counted in the total of get_operator_counts, not as online or temporarily
\* offline.
C26_UnregisterKeepsRecord ==
    Unregistered =>
        LET operator == get_operator(last.id)
            before == last.operators[last.id]
            others == {o \in OperatorIds \ {last.id} : mm_operators[o].present}
        IN  /\ operator.some
            /\ ~operator.value.online
            /\ operator.value.reputation = before.reputation
            /\ operator.value.last_assignment = before.last_assignment
            /\ get_operator_counts.all = Cardinality(others) + 1
            /\ get_operator_counts.online + get_operator_counts.temporary_offline
                   <= Cardinality(others)

\* a stored operator unregisters: get_operator returns nothing and the total
\* counts the other operator only
C26_RecordGone ==
    /\ Unregistered
    /\ get_operator(last.id) = None
    /\ \E o \in OperatorIds \ {last.id} : mm_operators[o].present
    /\ get_operator_counts.all = 1

\* ---- C27
Interacted == last.op = "update_last_interaction"

\* C27: update_last_interaction(op) changes only op's last_interaction, which
\* becomes the time of the call: op's resource, reputation, online flag and
\* last_assignment, every other operator and every request are unchanged; for
\* an id that is not registered it creates no record and returns Ok.
C27_OnlyLastInteraction ==
    Interacted =>
        LET before == last.operators[last.id]
        IN  /\ mm_proof_requests = last.requests
            /\ \A o \in OperatorIds \ {last.id} : mm_operators[o] = last.operators[o]
            /\ before.present =>
                   mm_operators[last.id] =
                       [before EXCEPT !.last_interaction = Database_now]
            /\ ~before.present => (~mm_operators[last.id].present /\ last.ret = "Ok")

\* a silent operator reports while another operator and a request are stored:
\* its last_interaction moves away from its last_assignment
C27_Witness ==
    /\ Interacted
    /\ last.operators[last.id].present
    /\ last.operators[last.id].last_interaction # Database_now
    /\ mm_operators[last.id].last_interaction = Database_now
    /\ mm_operators[last.id].last_assignment # Database_now
    /\ mm_operators[last.id].resource = serialize_resource(LargeResource)
    /\ \E o \in OperatorIds \ {last.id} : mm_operators[o].present
    /\ \E i \in ReqIds : mm_proof_requests[i].present

\* an operator that is not registered reports: Ok and no record
C27_Unknown ==
    /\ Interacted
    /\ ~last.operators[last.id].present
    /\ \E o \in OperatorIds \ {last.id} : mm_operators[o].present
    /\ get_operator(last.id) = None
    /\ last.ret = "Ok"

\* ---- C28
Counted == last.op = "get_operator_counts"

\* the stored operators
StoredOperators == {OperatorInfo_from(o, mm_operators[o]) :
                        o \in {p \in OperatorIds : mm_operators[p].present}}

\* C28: get_operator_counts returns the number of operator records, the
\* number of them with is_online true and the number with
\* is_temporary_offline true; online + temporarily offline <= total, and the
\* difference is the number of records whose online flag is false.
C28_OperatorCounts ==
    Counted =>
        LET counts == last.arg
        IN  /\ counts.all = Cardinality(StoredOperators)
            /\ counts.online = Cardinality({o \in StoredOperators : is_online(o)})
            /\ counts.temporary_offline =
                   Cardinality({o \in StoredOperators : is_temporary_offline(o)})
            /\ counts.online + counts.temporary_offline <= counts.all
            /\ counts.all - (counts.online + counts.temporary_offline) =
                   Cardinality({o \in StoredOperators : ~o.online})

\* two operators, one that reported a moment ago and one that has been
\* silent for three minutes: (2, 1, 1)
C28_Witness ==
    /\ Counted
    /\ last.arg = [all |-> 2, online |-> 1, temporary_offline |-> 1]

\* one operator is stored: (1, 1, 0)
C28_OneOnline ==
    /\ Counted
    /\ last.arg = [all |-> 1, online |-> 1, temporary_offline |-> 0]

\* ---- C29
\* C29: after any sequence of add and remove calls, get_nearest returns None
\* iff there is no deadline, and otherwise an entry (id, deadline) that is
\* stored and whose deadline is the minimum over all stored entries.
C29_NearestIsMinimum ==
    last.op = "get_nearest" =>
        LET nearest == last.arg.result
        IN  /\ ~nearest.some <=> mm_deadlines = {}
            /\ nearest.some =>
                   /\ DeadlineRow(nearest.value[1], nearest.value[2]) \in mm_deadlines
                   /\ \A row \in mm_deadlines : nearest.value[2] <= row.deadline

\* two deadlines are stored and the later one was added first: the nearest is
\* the one of the second request
C29_Witness ==
    /\ last.op = "get_nearest"
    /\ mm_deadlines = {DeadlineRow(1, 6), DeadlineRow(2, 4)}
    /\ last.arg.result = Some(<<2, 4>>)

\* every deadline was removed again: None
C29_Empty ==
    /\ last.op = "get_nearest"
    /\ last.arg.result = None
    /\ mm_deadlines = {}

\* ---- C30
\* C30: there is at most one deadline per request id: add(id, d) on an id
\* that has one replaces it with d; remove(id) returns the deadline stored
\* for id and deletes it, and returns None and changes nothing when id has
\* none.
C30_OneDeadlinePerRequest ==
    /\ \A row, other \in mm_deadlines : row.pr_id = other.pr_id => row = other
    /\ last.op = "add" =>
           mm_deadlines = {row \in last.arg.before : row.pr_id # last.id}
                              \cup {DeadlineRow(last.id, last.arg.deadline)}
    /\ last.op = "remove" =>
           LET stored == {row \in last.arg.before : row.pr_id = last.id}
           IN  IF stored = {}
               THEN last.arg.result = None /\ mm_deadlines = last.arg.before
               ELSE /\ \E row \in stored : last.arg.result = Some(row.deadline)
                    /\ mm_deadlines = last.arg.before \ stored

\* a request that has a deadline is given another one while a second request
\* has a deadline too
C30_Witness ==
    /\ last.op = "add"
    /\ last.id = 1
    /\ last.arg.before = {DeadlineRow(1, 4), DeadlineRow(2, 4)}
    /\ mm_deadlines = {DeadlineRow(1, 6), DeadlineRow(2, 4)}

\* remove returns the deadline that replaced the first one
C30_RemoveStored ==
    /\ last.op = "remove"
    /\ last.arg.before = {DeadlineRow(1, 6), DeadlineRow(2, 4)}
    /\ last.id = 1
    /\ last.arg.result = Some(6)
    /\ mm_deadlines = {DeadlineRow(2, 4)}

\* remove of a request without a deadline: None, nothing changes
C30_RemoveAgain ==
    /\ last.op = "remove"
    /\ last.arg.before = {DeadlineRow(2, 4)}
    /\ last.id = 1
    /\ last.arg.result = None
    /\ mm_deadlines = {DeadlineRow(2, 4)}

\* ---- C31
\* C31: InMemoryDB and Database implement the same guarded status machine:
\* after every sequence of try_create_proof_request and
\* set_proof_request_status calls applied to both, both store the same
\* status for every request.
C31_StoresAgree ==
    \A id \in ReqIds :
        /\ mm_proof_requests[id].present <=> sled_proof_requests[id].present
        /\ mm_proof_requests[id].present =>
               mm_proof_requests[id].status = sled_proof_requests[id].status.tag

\* a request is created and set to Proven at once: Database keeps Created,
\* InMemoryDB stores Proven
C31_SledSkipsAhead ==
    \E id \in ReqIds :
        /\ mm_proof_requests[id].present
        /\ mm_proof_requests[id].status = "Created"
        /\ sled_proof_requests[id].status.tag = "Proven"

\* a request is cancelled and then accepted: Database keeps Cancelled,
\* InMemoryDB leaves the final status
C31_SledLeavesFinal ==
    \E id \in ReqIds :
        /\ mm_proof_requests[id].present
        /\ mm_proof_requests[id].status = "Cancelled"
        /\ sled_proof_requests[id].status.tag = "Accepted"

\* both stores walked the whole table from Created to Proven
C31_BothProven ==
    \E id \in ReqIds :
        /\ mm_proof_requests[id].present
        /\ mm_proof_requests[id].status = "Proven"
        /\ sled_proof_requests[id].status.tag = "Proven"

\* ---- C32
\* the most status changes a record can have behind it when it stores the
\* variant: every edge of the table raises it
StatusLevel(tag) ==
    CASE tag = "Created" -> 0
      [] tag = "Accepted" -> 1
      [] tag = "Assigned" -> 2
      [] tag = "AcknowledgedAssignment" -> 3
      [] tag = "ProofBeingTested" -> 4
      [] tag \in {"Proven", "Cancelled", "Rejected"} -> 5

\* a step changes the stored status of the record
StatusChanges(id) ==
    mm_proof_requests[id].present /\ mm_proof_requests'[id].status # mm_proof_requests[id].status

\* C32: status only moves forward: a record starts at Created and every
\* change of its stored status is an edge of the status table that leaves a
\* status that is not final, so no variant occurs twice, a record changes at
\* most 5 times and never after Cancelled, Rejected or Proven.
C32_StatusOnlyForward ==
    [][\A id \in ReqIds :
           /\ (~mm_proof_requests[id].present /\ mm_proof_requests'[id].present)
                  => mm_proof_requests'[id].status = "Created"
           /\ StatusChanges(id) =>
                  /\ TableEdge(mm_proof_requests[id].status, mm_proof_requests'[id].status)
                  /\ mm_proof_requests[id].status \notin {"Cancelled", "Rejected", "Proven"}
                  /\ StatusLevel(mm_proof_requests'[id].status)
                         > StatusLevel(mm_proof_requests[id].status)
                  /\ StatusLevel(mm_proof_requests'[id].status) <= 5]_vars

\* a record went through its 5 changes to Proven and a call on it that came
\* later changed nothing
C32_Witness ==
    \E id \in ReqIds, h \in Handlers :
        /\ mm_proof_requests[id].present
        /\ mm_proof_requests[id].status = "Proven"
        /\ hs[h].pc = "done" /\ hs[h].id = id /\ hs[h].seen = "Proven" /\ hs[h].n = 0

\* a record was rejected while its proof was tested and a Proven that raced
\* with the rejection changed nothing
C32_RejectedStays ==
    \E id \in ReqIds, h \in Handlers :
        /\ mm_proof_requests[id].present
        /\ mm_proof_requests[id].status = "Rejected"
        /\ hs[h].pc = "done" /\ hs[h].id = id /\ hs[h].target.tag = "Proven"
        /\ hs[h].seen = "ProofBeingTested" /\ hs[h].n = 0

\* ---- C33
\* a set_payment_to_ready call of the handler has returned
ReadyDone(h) == hs[h].pc = "ready_done"

\* two calls on one record of one store that were in flight together
ReadyRaced(h, g) ==
    /\ h # g /\ ReadyDone(h) /\ ReadyDone(g)
    /\ hs[h].seen = hs[g].seen /\ hs[h].id = hs[g].id
    /\ (g \in hs[h].overlap \/ h \in hs[g].overlap)

\* C33: when two set_payment_to_ready calls race on a record whose payment is
\* Reserved(a), set_payment_status calls between them or not, exactly one of
\* the two returns Ok and the other an error, and in both stores a call
\* returns Ok exactly when it made the change Reserved(a) -> ReadyToPay(a).
C33_OneReadyWins ==
    /\ \A h \in Handlers : ReadyDone(h) => (ready_result(h) = "Ok" <=> hs[h].n = 1)
    /\ \A h, g \in Handlers :
           ReadyRaced(h, g) => (ready_result(h) = "Ok") # (ready_result(g) = "Ok")

\* InMemoryDB: a call made the change and returns an error, because its
\* closure first ran on a payment that was not Reserved
C33_SledChangedAndBailed ==
    \E h \in Handlers :
        /\ ReadyDone(h) /\ hs[h].seen = "InMemoryDB"
        /\ hs[h].n = 1 /\ ready_result(h) = "Err"
        /\ sled_proof_requests[hs[h].id].payment = Payment("ReadyToPay", 7)

\* Database: both calls of a race return Ok, the payment set back to
\* Reserved between their statements
C33_BothOk ==
    \E h, g \in Handlers :
        /\ ReadyRaced(h, g) /\ hs[h].seen = "Database"
        /\ ready_result(h) = "Ok" /\ ready_result(g) = "Ok"

\* Database: a call returns Ok exactly when its UPDATE made the change, and
\* of two calls that race with no payment written between them one returns Ok
C33_DatabaseOkIffChanged ==
    \A h \in Handlers :
        (ReadyDone(h) /\ hs[h].seen = "Database") =>
            (ready_result(h) = "Ok" <=> hs[h].n = 1)

\* a race in either store in which one call returns Ok and the other an error
C33_OneOkOneErr ==
    \E h, g \in Handlers :
        /\ ReadyRaced(h, g)
        /\ ready_result(h) = "Ok" /\ hs[h].n = 1
        /\ ready_result(g) = "Err" /\ hs[g].n = 0

\* ---- C34
PaymentCalls == {"set_payment_status", "set_payment_to_ready", "set_proof_requests_paid"}

\* C34: set_payment_status, set_payment_to_ready and set_proof_requests_paid
\* leave last_status_update as it is, so a payment update on an Assigned
\* request never makes proof_requests_need_assignment stop offering it.
C34_PaymentKeepsStamp ==
    last.op \in PaymentCalls =>
        \A id \in ReqIds :
            last.requests[id].present =>
                /\ mm_proof_requests[id].last_status_update
                       = last.requests[id].last_status_update
                /\ NeedsAssignment(last.requests[id]) => NeedsAssignment(mm_proof_requests[id])

\* an Assigned request that was offered again is no longer offered after a
\* payment call
C34_ReofferDelayed ==
    /\ last.op \in {"set_payment_status", "set_payment_to_ready"}
    /\ last.n = 1
    /\ last.requests[last.id].status = "Assigned"
    /\ NeedsAssignment(last.requests[last.id])
    /\ ~NeedsAssignment(mm_proof_requests[last.id])
    /\ last.id \notin proof_requests_need_assignment

\* set_proof_requests_paid alone keeps last_status_update
C34_PaidKeepsStamp ==
    last.op = "set_proof_requests_paid" =>
        \A id \in ReqIds :
            /\ mm_proof_requests[id].last_status_update
                   = last.requests[id].last_status_update
            /\ NeedsAssignment(last.requests[id]) <=> NeedsAssignment(mm_proof_requests[id])

\* set_proof_requests_paid pays an Assigned request that is offered again
C34_PaidStillOffered ==
    /\ last.op = "set_proof_requests_paid"
    /\ last.n = 1
    /\ \E id \in last.arg :
           /\ mm_proof_requests[id].payment = "Paid"
           /\ mm_proof_requests[id].status = "Assigned"
           /\ last.requests[id].last_status_update < clock
           /\ id \in proof_requests_need_assignment

\* ---- C35
\* C35: once try_create_proof_request has stored a record no operation
\* changes its signed payload or deletes it; set_proof_request_status never
\* changes the payment or the amount; set_payment_status,
\* set_payment_to_ready and set_proof_requests_paid never change the status,
\* the operator or the proof.
C35_Frame ==
    \A id \in ReqIds :
        /\ (last.op # "none" /\ last.requests[id].present) =>
               /\ mm_proof_requests[id].present
               /\ mm_proof_requests[id].public_key = last.requests[id].public_key
               /\ mm_proof_requests[id].requester = last.requests[id].requester
        /\ last.op = "set_proof_request_status" =>
               /\ mm_proof_requests[id].payment = last.requests[id].payment
               /\ mm_proof_requests[id].amount = last.requests[id].amount
        /\ last.op \in PaymentCalls =>
               /\ mm_proof_requests[id].status = last.requests[id].status
               /\ mm_proof_requests[id].operator_id = last.requests[id].operator_id
               /\ mm_proof_requests[id].proof = last.requests[id].proof
               /\ mm_proof_requests[id].rejection_message = last.requests[id].rejection_message

\* a request of the second requester is Proven after its payment was made
\* ready, and a second create for its id, by the first requester, is refused
C35_Witness ==
    /\ last.op = "try_create_proof_request"
    /\ last.ret = "Err"
    /\ mm_proof_requests[last.id].public_key = 2
    /\ mm_proof_requests[last.id].status = "Proven"
    /\ mm_proof_requests[last.id].payment = "ReadyToPay"
    /\ mm_proof_requests[last.id].amount = 7

\* a payment call changes the payment of a request that has an operator
C35_PaymentOnAssigned ==
    /\ last.op = "set_payment_to_ready"
    /\ last.n = 1
    /\ mm_proof_requests[last.id].status = "AcknowledgedAssignment"
    /\ mm_proof_requests[last.id].operator_id = 1
    /\ mm_proof_requests[last.id].payment = "ReadyToPay"

\* a status call changes the status of a request whose payment is Paid
C35_StatusOnPaid ==
    /\ last.op = "set_proof_request_status"
    /\ last.n = 1
    /\ last.requests[last.id].status # mm_proof_requests[last.id].status
    /\ mm_proof_requests[last.id].payment = "Paid"
    /\ mm_proof_requests[last.id].amount = 7

\* ---- C36
\* C36: whatever the order of register, unregister, heartbeat and status
\* calls, the operator of a request whose status is Assigned or
\* AcknowledgedAssignment is present in the operator registry.
C36_AssignedIsRegistered ==
    \A id \in ReqIds :
        (/\ mm_proof_requests[id].present
         /\ mm_proof_requests[id].status \in {"Assigned", "AcknowledgedAssignment"})
            => mm_operators[mm_proof_requests[id].operator_id].present

\* unregister_operator_from_p2p deletes the operator of an acknowledged
\* assignment
C36_UnregisteredWhileAssigned ==
    /\ last.op = "unregister_operator_from_p2p"
    /\ last.n = 1
    /\ ~mm_operators[last.id].present
    /\ \E id \in ReqIds :
           /\ mm_proof_requests[id].present
           /\ mm_proof_requests[id].status = "AcknowledgedAssignment"
           /\ mm_proof_requests[id].operator_id = last.id

\* set_proof_request_status assigns a request to an operator that never
\* registered
C36_AssignedToStranger ==
    /\ last.op = "set_proof_request_status"
    /\ last.n = 1
    /\ last.arg.tag = "Assigned"
    /\ mm_proof_requests[last.id].status = "Assigned"
    /\ \A o \in OperatorIds : ~last.operators[o].present /\ ~mm_operators[o].present

\* a request is assigned to a registered operator that stays
C36_AssignedToRegistered ==
    /\ last.op = "update_last_interaction"
    /\ last.n = 1
    /\ \E id \in ReqIds :
           /\ mm_proof_requests[id].present
           /\ mm_proof_requests[id].status = "Assigned"
           /\ mm_proof_requests[id].operator_id = last.id

\* ---- C37
\* a try_create_proof_request call of the sled store has returned
SledCreated(h) == hs[h].pc = "sled_created"

\* C37: in the sled store try_create_proof_request never overwrites a stored
\* record: however two create calls for one id interleave with each other and
\* with status and payment updates on that id, at most one of them returns Ok
\* and no create puts the status back to Created or the payment to Nothing.
C37_CreateNeverOverwrites ==
    /\ \A h \in Handlers : SledCreated(h) => hs[h].n = 0
    /\ \A h, g \in Handlers :
           (h # g /\ SledCreated(h) /\ SledCreated(g) /\ hs[h].id = hs[g].id)
               => ~(hs[h].seen = "Ok" /\ hs[g].seen = "Ok")

\* both creates of an id return Ok, and the second put an assigned and
\* reserved record back to Created and Nothing
C37_BothOkAndReset ==
    \E h, g \in Handlers :
        /\ h # g /\ SledCreated(h) /\ SledCreated(g) /\ hs[h].id = hs[g].id
        /\ hs[h].seen = "Ok" /\ hs[g].seen = "Ok"
        /\ hs[g].n = 1
        /\ \E old \in hs[g].reqs :
               old.status = Assigned(1) /\ old.payment = Payment("Reserved", 7)
        /\ sled_proof_requests[hs[g].id].status = Created
        /\ sled_proof_requests[hs[g].id].payment.tag = "Nothing"

\* a create whose get runs after the other's insert is refused and leaves
\* the record as it is
C37_LateCreateRefused ==
    \E h, g \in Handlers :
        /\ h # g /\ SledCreated(h) /\ SledCreated(g) /\ hs[h].id = hs[g].id
        /\ hs[h].seen = "Ok" /\ hs[g].seen = "Err"
        /\ sled_proof_requests[hs[g].id].status = Assigned(1)

\* ---- C38
\* the handler holds the answers about a requirement and a relaxation of it
Relaxed(h) == hs[h].pc = "relax"

\* C38: fulfills is monotone in the requirement: a resource that fulfills a
\* requirement fulfills it too after a GPU tier is removed, a tier is replaced
\* by a lower one, a set minimum is lowered or a set minimum is unset.
C38_FulfillsMonotone ==
    \A h \in Handlers : (Relaxed(h) /\ hs[h].n = 1) => hs[h].overlap # {}

\* one GeForceRtx3060_8GB fulfills the tier H100 and does not fulfill the
\* lower tier GeForceRtx3060_12GB that replaces it
C38_LowerTierRefused ==
    \E h \in Handlers :
        /\ Relaxed(h) /\ hs[h].seen = "replace"
        /\ hs[h].n = 1 /\ hs[h].overlap = {}
        /\ \E resource \in hs[h].ops, pair \in hs[h].reqs :
               /\ resource.gpus = <<GPU_Model("GeForceRtx3060_8GB")>>
               /\ pair[1].min_gpu = <<"H100">>
               /\ pair[2].min_gpu = <<"GeForceRtx3060_12GB">>

\* the other three ways of asking for less keep a fulfilled requirement
\* fulfilled
C38_OthersMonotone ==
    \A h \in Handlers :
        (Relaxed(h) /\ hs[h].n = 1 /\ hs[h].seen # "replace") => hs[h].overlap # {}

\* a tier replaced by one that is lower in rank and not larger in memory
\* keeps a fulfilled requirement fulfilled
C38_SmallerTierMonotone ==
    \A h \in Handlers :
        (/\ Relaxed(h) /\ hs[h].n = 1 /\ hs[h].seen = "replace"
         /\ \A pair \in hs[h].reqs : \A i \in DOMAIN pair[1].min_gpu :
                GPUModel_specs(pair[2].min_gpu[i]).memory.size
                    <= GPUModel_specs(pair[1].min_gpu[i]).memory.size)
            => hs[h].overlap # {}

\* a requirement that is not fulfilled becomes fulfilled when its first of two
\* tiers is removed
C38_RemovedTierHelps ==
    \E h \in Handlers :
        /\ Relaxed(h) /\ hs[h].seen = "remove"
        /\ hs[h].n = 0 /\ hs[h].overlap # {}
        /\ \E pair \in hs[h].reqs : Len(pair[1].min_gpu) = 2

\* a fulfilled requirement with two tiers and a set min_vram stays fulfilled
\* when a tier is removed, and when a minimum is lowered
C38_KeptFulfilled ==
    \E h \in Handlers :
        /\ Relaxed(h) /\ hs[h].seen \in {"remove", "lower"}
        /\ hs[h].n = 1 /\ hs[h].overlap # {}
        /\ \E pair \in hs[h].reqs : Len(pair[1].min_gpu) = 2 /\ pair[1].min_vram.some

\* ---- C39
\* the assignment a handler made at the time hs[h].n is offered again
OfferedAgain(h) ==
    /\ hs[h].pc = "assigned"
    /\ mm_proof_requests[hs[h].id].status = "Assigned"
    /\ hs[h].id \in proof_requests_need_assignment

\* C39: a request whose transition to Assigned was applied at the time t is
\* not returned by proof_requests_need_assignment at any time earlier than
\* t + 10 s, last_status_update being written from the application clock cut
\* to whole seconds and compared with the clock of the database.
C39_NotBeforeTenSeconds ==
    \A h \in Handlers : OfferedAgain(h) => clock >= hs[h].n + ReassignmentTicks

\* assigned half a second after a whole second, the request is offered again
\* nine and a half seconds later
C39_OfferedEarly ==
    \E h \in Handlers :
        /\ OfferedAgain(h)
        /\ hs[h].n % TicksPerSecond = 1
        /\ clock = hs[h].n + ReassignmentTicks - 1

\* the request is never offered again earlier than ten seconds after the
\* whole second in which it was assigned, which is less than a second early
C39_NotBeforeWholeSecond ==
    \A h \in Handlers :
        OfferedAgain(h) =>
            /\ clock >= (hs[h].n - (hs[h].n % TicksPerSecond)) + ReassignmentTicks
            /\ clock > hs[h].n + ReassignmentTicks - TicksPerSecond

\* assigned on a whole second, the request is offered again ten seconds
\* later and was not offered half a second before
C39_OfferedOnTime ==
    \E h \in Handlers :
        /\ OfferedAgain(h)
        /\ hs[h].n % TicksPerSecond = 0
        /\ clock = hs[h].n + ReassignmentTicks

====
